---- MODULE Spec2Model ----
(***************************************************************************)
(* State-machine model of the MapVisualization component (the version     *)
(* with the "both" metro wildcard and the recommendation score): the CSV  *)
(* loader, the row matcher, the geography joiner, the colour mapper and   *)
(* the render branches; and of the prosperity page Home, which loads its   *)
(* two datasets with one Promise.all.                                      *)
(*                                                                         *)
(* Strings are sequences of one-character strings, so that trim, case     *)
(* folding, split, includes and the number parsers are computed and not   *)
(* assumed.  Scores are exact rationals [n, d] in lowest terms with       *)
(* d > 0; the record with d = 0 stands for NaN.                            *)
(***************************************************************************)
EXTENDS Integers, Sequences, FiniteSets, TLC

VARIABLES
    formData,      \* prop: the questionnaire answers
    scoreType,     \* prop: "affordability" | "prosperity" | "recommendation"
    csvFetch,      \* position of loadCSVData: "pending" | "done" | "failed"
    csvText,       \* the response text loadCSVData received, as its lines
    allCSVData,    \* useState: parsed rows
    countyScores,  \* useState: Map<string, CountyData> as its entries in insertion order
    geoJsonData,   \* useState: NoData or the processed features
    loading,       \* useState
    error,         \* useState: NoError or a message
    hasCalculated, \* useState
    matcherDue,    \* the matcher effect is scheduled (allCSVData or formData changed)
    geoDue,        \* the loadGeoJSON effect is scheduled (countyScores or scoreType changed)
    geoFetches,    \* outstanding loadGeoJSON calls, each with the values its closure captured
    homeCsv,       \* Home: the modelData.csv promise, [status, body]
    homeTopo,      \* Home: the counties topology promise, [status, body]
    mapData,       \* Home: useState, NoMapData or the joined data
    homeError,     \* Home: useState error, NoError or a message
    fnArg,         \* the argument given to a pure function studied on its own
    fnResults      \* the results of its successive applications

\* the state of MapVisualization and the state of Home
mapVars == <<formData, scoreType, csvFetch, csvText, allCSVData, countyScores,
             geoJsonData, loading, error, hasCalculated, matcherDue, geoDue, geoFetches>>
homeVars == <<homeCsv, homeTopo, mapData, homeError>>
fnVars == <<fnArg, fnResults>>

vars == <<formData, scoreType, csvFetch, csvText, allCSVData, countyScores, geoJsonData,
          loading, error, hasCalculated, matcherDue, geoDue, geoFetches,
          homeCsv, homeTopo, mapData, homeError, fnArg, fnResults>>

-----------------------------------------------------------------------------
(* Bounds of the model *)

\* longest table body (lines after the header) the CSV response carries
MaxRows == 3

\* largest numKids answer tried (the form offers 0..3; the prop is any number)
MaxKids == 5

\* most data lines of the table the page Home loads
MaxHomeRows == 2

\* most lines of a response text made of the loader's lines
MaxLoaderLines == 3

\* most data lines of a table made of the flag lines
MaxFlagRows == 2

\* the scores given to getColor on its own are the eighths from
\* -MaxEighths/8 to MaxEighths/8
MaxEighths == 24

\* most fragments a county name given to the normalizers is made of
MaxFragments == 3

\* most successive applications of a normalizer to its own result
MaxApplications == 2

-----------------------------------------------------------------------------
(* Characters and strings *)

LowerLetters == <<"a","b","c","d","e","f","g","h","i","j","k","l","m",
                  "n","o","p","q","r","s","t","u","v","w","x","y","z">>
UpperLetters == <<"A","B","C","D","E","F","G","H","I","J","K","L","M",
                  "N","O","P","Q","R","S","T","U","V","W","X","Y","Z">>
Digits == <<"0","1","2","3","4","5","6","7","8","9">>

Whitespace == {" ", "\t", "\r"}

IndexIn(c, tbl) == IF \E i \in DOMAIN tbl : tbl[i] = c
                   THEN CHOOSE i \in DOMAIN tbl : tbl[i] = c
                   ELSE 0

\* the two case maps as tables from character to character
LowerOf == [c \in {UpperLetters[i] : i \in DOMAIN UpperLetters} |->
               LowerLetters[IndexIn(c, UpperLetters)]]
UpperOf == [c \in {LowerLetters[i] : i \in DOMAIN LowerLetters} |->
               UpperLetters[IndexIn(c, LowerLetters)]]

toLowerChar(c) == IF c \in DOMAIN LowerOf THEN LowerOf[c] ELSE c
toUpperChar(c) == IF c \in DOMAIN UpperOf THEN UpperOf[c] ELSE c

toLowerCase(s) == [i \in DOMAIN s |-> toLowerChar(s[i])]
toUpperCase(s) == [i \in DOMAIN s |-> toUpperChar(s[i])]

RECURSIVE trimStart(_)
trimStart(s) == IF s # <<>> /\ Head(s) \in Whitespace THEN trimStart(Tail(s)) ELSE s

RECURSIVE trimEnd(_)
trimEnd(s) == IF s # <<>> /\ s[Len(s)] \in Whitespace
              THEN trimEnd(SubSeq(s, 1, Len(s) - 1)) ELSE s

trim(s) == trimEnd(trimStart(s))

startsWith(s, p) == Len(p) <= Len(s) /\ SubSeq(s, 1, Len(p)) = p

dropN(s, k) == SubSeq(s, k + 1, Len(s))

\* String.prototype.includes
includes(s, sub) == \E i \in 0..(Len(s) - Len(sub)) : SubSeq(s, i + 1, i + Len(sub)) = sub

\* String.prototype.indexOf, counted from 1; 0 when sep does not occur
indexOf(s, sep) ==
    LET hits == {i \in 1..(Len(s) - Len(sep) + 1) : SubSeq(s, i, i + Len(sep) - 1) = sep}
    IN  IF hits = {} THEN 0 ELSE CHOOSE i \in hits : \A j \in hits : i <= j

\* String.prototype.split with a non-empty separator string
RECURSIVE split(_, _)
split(s, sep) ==
    LET i == indexOf(s, sep)
    IN  IF i = 0 THEN <<s>>
        ELSE <<SubSeq(s, 1, i - 1)>> \o split(SubSeq(s, i + Len(sep), Len(s)), sep)

\* Array.prototype.join
RECURSIVE join(_, _)
join(parts, sep) ==
    IF parts = <<>> THEN <<>>
    ELSE IF Len(parts) = 1 THEN parts[1]
    ELSE parts[1] \o sep \o join(Tail(parts), sep)

\* replace(/ word/g, '') on an already lower-cased string: one left-to-right pass,
\* matches do not overlap and removed text is not rescanned
RECURSIVE removeAll(_, _)
removeAll(s, pat) ==
    IF s = <<>> THEN <<>>
    ELSE IF startsWith(s, pat) THEN removeAll(dropN(s, Len(pat)), pat)
    ELSE <<Head(s)>> \o removeAll(Tail(s), pat)

\* replace(/\s+/g, ' ')
RECURSIVE collapseSpaces(_)
collapseSpaces(s) ==
    IF s = <<>> THEN <<>>
    ELSE IF Head(s) \in Whitespace THEN <<" ">> \o collapseSpaces(trimStart(s))
    ELSE <<Head(s)>> \o collapseSpaces(Tail(s))

-----------------------------------------------------------------------------
(* Exact rationals *)

Abs(x) == IF x < 0 THEN -x ELSE x

RECURSIVE Gcd(_, _)
Gcd(a, b) == IF b = 0 THEN a ELSE Gcd(b, a % b)

Rat(n, d) ==
    LET g == Gcd(Abs(n), Abs(d))
        s == IF d < 0 THEN -1 ELSE 1
    IN  [n |-> (s * n) \div g, d |-> (s * d) \div g]

Zero == [n |-> 0, d |-> 1]
NaN  == [n |-> 0, d |-> 0]
Num(k) == [n |-> k, d |-> 1]

isNaN(x) == x.d = 0

RAdd(x, y) == Rat(x.n * y.d + y.n * x.d, x.d * y.d)
RSub(x, y) == Rat(x.n * y.d - y.n * x.d, x.d * y.d)
RMul(x, y) == Rat(x.n * y.n, x.d * y.d)
RDiv(x, y) == Rat(x.n * y.d, x.d * y.n)
RLt(x, y)  == x.n * y.d < y.n * x.d
RLe(x, y)  == x.n * y.d <= y.n * x.d
RMax(x, y) == IF RLt(x, y) THEN y ELSE x
RMin(x, y) == IF RLt(y, x) THEN y ELSE x
\* Math.floor
RFloor(x)  == x.n \div x.d

-----------------------------------------------------------------------------
(* Inputs: the two fetched datasets and the props *)

\* the header line of the table (its content is never read)
HeaderLine == <<"c","o","u","n","t","y">>

\* Fairfax County VA,TRUE,1,2,N,N,N,0.8,1.5
Line1 ==
    <<"F","a","i","r","f","a","x"," ","C","o","u","n","t","y"," ","V","A",",","T","R","U","E",",","1",",","2",",","N",",","N",",","N",",","0",".","8",",","1",".","5">>

\* Fairfax County VA,FALSE,1,2,N,N,N,-0.4,0.3
Line2 ==
    <<"F","a","i","r","f","a","x"," ","C","o","u","n","t","y"," ","V","A",",","F","A","L","S","E",",","1",",","2",",","N",",","N",",","N",",","-","0",".","4",",","0",".","3">>

\* Fairfax County VA,TRUE,1,2,N,N,N,2,-1
Line3 ==
    <<"F","a","i","r","f","a","x"," ","C","o","u","n","t","y"," ","V","A",",","T","R","U","E",",","1",",","2",",","N",",","N",",","N",",","2",",","-","1">>

\* Fairfax City VA, true ,1,2,n,N,N,-1,2
Line4 ==
    <<"F","a","i","r","f","a","x"," ","C","i","t","y"," ","V","A",","," ","t","r","u","e"," ",",","1",",","2",",","n",",","N",",","N",",","-","1",",","2">>

\* Lee County AL,TRUE,1,2,N,N,N,3.5,-2.5
Line5 ==
    <<"L","e","e"," ","C","o","u","n","t","y"," ","A","L",",","T","R","U","E",",","1",",","2",",","N",",","N",",","N",",","3",".","5",",","-","2",".","5">>

\* Lee County VA,FALSE,3,1,Y,N,N,0.5,x
Line6 ==
    <<"L","e","e"," ","C","o","u","n","t","y"," ","V","A",",","F","A","L","S","E",",","3",",","1",",","Y",",","N",",","N",",","0",".","5",",","x">>

CsvLinePool == {Line1, Line2, Line3, Line4, Line5, Line6}

\* the sequences of at most k distinct elements of S
RECURSIVE DistinctSeqsUpTo(_, _)
DistinctSeqsUpTo(S, k) ==
    IF k = 0 THEN {<<>>}
    ELSE LET shorter == DistinctSeqsUpTo(S, k - 1)
         IN  shorter \cup
             {Append(q, x) : <<q, x>> \in
                 {<<r, y>> \in shorter \X S :
                      Len(r) = k - 1 /\ \A i \in DOMAIN r : r[i] # y}}

\* the response texts of the table fetch: a header and up to MaxRows distinct lines
CsvTexts == {<<HeaderLine>> \o body : body \in DistinctSeqsUpTo(CsvLinePool, MaxRows)}

\* the header line of modelData.csv with its nine column names:
\* county,isMetro,numKids,numAdults,HighFood,LowTransportation,HighHealthConditions,affordability_score,prosperity_score
HomeHeaderLine ==
    <<"c","o","u","n","t","y",",","i","s","M","e","t","r","o",",","n","u","m","K","i","d","s",",","n","u","m","A","d","u","l","t","s",",","H","i","g","h","F","o","o","d",",","L","o","w","T","r","a","n","s","p","o","r","t","a","t","i","o","n",",","H","i","g","h","H","e","a","l","t","h","C","o","n","d","i","t","i","o","n","s",",","a","f","f","o","r","d","a","b","i","l","i","t","y","_","s","c","o","r","e",",","p","r","o","s","p","e","r","i","t","y","_","s","c","o","r","e">>

\* lines that exercise the loader, several of them malformed
LoaderLines == <<
    \* 1: a well-formed line: 'Lee County VA,FALSE,3,1,Y,N,N,0.5,1.5'
    <<"L","e","e"," ","C","o","u","n","t","y"," ","V","A",",","F","A","L","S","E",",","3",",","1",",","Y",",","N",",","N",",","0",".","5",",","1",".","5">>,
    \* 2: an empty line
    <<>>,
    \* 3: a line of white space
    <<" ","\r">>,
    \* 4: three fields: 'Lee County VA,TRUE,1'
    <<"L","e","e"," ","C","o","u","n","t","y"," ","V","A",",","T","R","U","E",",","1">>,
    \* 5: the header again
    HomeHeaderLine,
    \* 6: no county: ',TRUE,1,2,N,N,N,1,2'
    <<",","T","R","U","E",",","1",",","2",",","N",",","N",",","N",",","1",",","2">>,
    \* 7: no isMetro: 'Lee County AL,,1,2,N,N,N,1,2'
    <<"L","e","e"," ","C","o","u","n","t","y"," ","A","L",",",",","1",",","2",",","N",",","N",",","N",",","1",",","2">>,
    \* 8: affordability is not a number: 'Lee County VA,TRUE,1,2,N,N,N,abc,1.5'
    <<"L","e","e"," ","C","o","u","n","t","y"," ","V","A",",","T","R","U","E",",","1",",","2",",","N",",","N",",","N",",","a","b","c",",","1",".","5">>,
    \* 9: ten fields: 'Lee County VA,TRUE,1,2,N,N,N,0.5,1.5,9.9'
    <<"L","e","e"," ","C","o","u","n","t","y"," ","V","A",",","T","R","U","E",",","1",",","2",",","N",",","N",",","N",",","0",".","5",",","1",".","5",",","9",".","9">>,
    \* 10: no prosperity: 'Lee County VA,TRUE,1,2,N,N,N,1.5,'
    <<"L","e","e"," ","C","o","u","n","t","y"," ","V","A",",","T","R","U","E",",","1",",","2",",","N",",","N",",","N",",","1",".","5",",">> >>

LoaderLinePool == {LoaderLines[i] : i \in DOMAIN LoaderLines}

\* the response texts made of them: up to MaxLoaderLines distinct lines, the
\* first of which the loader skips as the header, whatever it is
LoaderTexts == DistinctSeqsUpTo(LoaderLinePool, MaxLoaderLines) \ {<<>>}

\* lines whose flag columns use the encodings Y/N, y/n, TRUE/FALSE and true/false
FlagLines == <<
    \* 1: 'Fairfax County VA,TRUE,1,2,Y,N,N,0.8,1.5'
    <<"F","a","i","r","f","a","x"," ","C","o","u","n","t","y"," ","V","A",",","T","R","U","E",",","1",",","2",",","Y",",","N",",","N",",","0",".","8",",","1",".","5">>,
    \* 2: 'Lee County VA,TRUE,1,2,y,n,n,0.5,1'
    <<"L","e","e"," ","C","o","u","n","t","y"," ","V","A",",","T","R","U","E",",","1",",","2",",","y",",","n",",","n",",","0",".","5",",","1">>,
    \* 3: 'Ponce County VA,TRUE,1,2,TRUE,FALSE,FALSE,1,2'
    <<"P","o","n","c","e"," ","C","o","u","n","t","y"," ","V","A",",","T","R","U","E",",","1",",","2",",","T","R","U","E",",","F","A","L","S","E",",","F","A","L","S","E",",","1",",","2">>,
    \* 4: 'York County VA,TRUE,1,2,true,false,false,2,1'
    <<"Y","o","r","k"," ","C","o","u","n","t","y"," ","V","A",",","T","R","U","E",",","1",",","2",",","t","r","u","e",",","f","a","l","s","e",",","f","a","l","s","e",",","2",",","1">>,
    \* 5: 'Bath County VA,TRUE,1,1,Y,N,N,1.5,0.5'
    <<"B","a","t","h"," ","C","o","u","n","t","y"," ","V","A",",","T","R","U","E",",","1",",","1",",","Y",",","N",",","N",",","1",".","5",",","0",".","5">>,
    \* 6: 'Page County VA,TRUE,1,2,N,N,N,-1,2'
    <<"P","a","g","e"," ","C","o","u","n","t","y"," ","V","A",",","T","R","U","E",",","1",",","2",",","N",",","N",",","N",",","-","1",",","2">> >>

FlagLinePool == {FlagLines[i] : i \in DOMAIN FlagLines}

\* the response texts made of them: the header and up to MaxFlagRows distinct lines
FlagTexts == {<<HeaderLine>> \o body : body \in DistinctSeqsUpTo(FlagLinePool, MaxFlagRows)}

\* NAME 'Fairfax', GEO_ID '0500000US51059'
Feature1 ==
    [NAME |-> <<"F","a","i","r","f","a","x">>,
     GEO_ID |-> <<"0","5","0","0","0","0","0","U","S","5","1","0","5","9">>]

\* NAME 'Lee', GEO_ID '0500000US51105'
Feature2 ==
    [NAME |-> <<"L","e","e">>,
     GEO_ID |-> <<"0","5","0","0","0","0","0","U","S","5","1","1","0","5">>]

\* NAME 'Lee', GEO_ID '0500000US01081'
Feature3 ==
    [NAME |-> <<"L","e","e">>,
     GEO_ID |-> <<"0","5","0","0","0","0","0","U","S","0","1","0","8","1">>]

\* NAME 'Ponce', GEO_ID '0500000US72113'
Feature4 ==
    [NAME |-> <<"P","o","n","c","e">>,
     GEO_ID |-> <<"0","5","0","0","0","0","0","U","S","7","2","1","1","3">>]

\* NAME '', GEO_ID '0500000US51600'
Feature5 ==
    [NAME |-> <<>>,
     GEO_ID |-> <<"0","5","0","0","0","0","0","U","S","5","1","6","0","0">>]

\* the features of the geography response (an excerpt of the fixed dataset)
GeoFeatures == <<Feature1, Feature2, Feature3, Feature4, Feature5>>

ScoreTypes == {"affordability", "prosperity", "recommendation"}

\* formData.isMetro: boolean | null
MetroAnswers == {"null", "true", "false"}

KidsAnswers == {1, 3, MaxKids}

Answers ==
    [isMetro : MetroAnswers, numKids : KidsAnswers, numAdults : {1, 2},
     HighFood : BOOLEAN, LowTransportation : BOOLEAN, HighHealthConditions : BOOLEAN]

\* the answers the whole pipeline is run on: the metro preference is free and the
\* other answers are those of a pool row, or of no row at all
PipelineAnswers ==
    {a \in Answers :
        /\ ~a.LowTransportation /\ ~a.HighHealthConditions
        /\ <<a.numKids, a.numAdults, a.HighFood>>
               \in {<<1, 2, FALSE>>, <<MaxKids, 1, TRUE>>, <<1, 1, FALSE>>}}

-----------------------------------------------------------------------------
(* Number parsers *)

isDigit(c) == IndexIn(c, Digits) > 0

RECURSIVE digitsPrefix(_)
digitsPrefix(s) == IF s # <<>> /\ isDigit(Head(s))
                   THEN <<Head(s)>> \o digitsPrefix(Tail(s)) ELSE <<>>

RECURSIVE digitsValue(_)
digitsValue(ds) == IF ds = <<>> THEN 0
                   ELSE 10 * digitsValue(SubSeq(ds, 1, Len(ds) - 1))
                        + (IndexIn(ds[Len(ds)], Digits) - 1)

RECURSIVE pow10(_)
pow10(k) == IF k = 0 THEN 1 ELSE 10 * pow10(k - 1)

signOf(s) == IF s # <<>> /\ Head(s) = "-" THEN -1 ELSE 1
afterSign(s) == IF s # <<>> /\ Head(s) \in {"-", "+"} THEN Tail(s) ELSE s

\* parseInt(s, 10): leading whitespace and one sign are skipped, the longest run of
\* digits is read, and there is no number (nan) when that run is empty
parseInt(s) ==
    LET t  == trimStart(s)
        ds == digitsPrefix(afterSign(t))
    IN  IF ds = <<>> THEN [nan |-> TRUE, v |-> 0]
        ELSE [nan |-> FALSE, v |-> signOf(t) * digitsValue(ds)]

\* parseFloat(s): leading whitespace, one sign, digits, an optional fraction; NaN when
\* neither the integer nor the fraction part has a digit (no input of the model
\* carries an exponent or the word Infinity)
parseFloat(s) ==
    LET t    == trimStart(s)
        u    == afterSign(t)
        ip   == digitsPrefix(u)
        rest == dropN(u, Len(ip))
        fp   == IF rest # <<>> /\ Head(rest) = "." THEN digitsPrefix(Tail(rest)) ELSE <<>>
    IN  IF ip = <<>> /\ fp = <<>> THEN NaN
        ELSE Rat(signOf(t) * (digitsValue(ip) * pow10(Len(fp)) + digitsValue(fp)),
                 pow10(Len(fp)))

\* mutant: NaN is passed on
orZero_KeepsNaN(x) == x

\* x || 0 on a number: NaN and 0 are falsy
orZero(x) == IF isNaN(x) \/ x.n = 0 THEN Zero ELSE x

-----------------------------------------------------------------------------
(* Score table loader *)

COMMA == <<",">>
SP == <<" ">>
STR_county == <<"c","o","u","n","t","y">>

\* the nine destructured, trimmed fields of a line (undefined reads as empty)
fieldsOf(line) ==
    LET parts == split(line, COMMA)
    IN  [i \in 1..9 |-> IF i <= Len(parts) THEN trim(parts[i]) ELSE <<>>]

\* the line yields a row
keepsLine(line) ==
    /\ trim(line) # <<>>
    /\ Len(split(line, COMMA)) >= 9
    /\ LET f == fieldsOf(line)
       IN  /\ f[1] # <<>>
           /\ f[1] # STR_county
           /\ f[2] # <<>>
           /\ f[3] # <<>>
           /\ f[4] # <<>>

rowOf(line) ==
    LET f == fieldsOf(line)
    IN  [county |-> f[1], isMetro |-> f[2], numKids |-> f[3], numAdults |-> f[4],
         HighFood |-> f[5], LowTransportation |-> f[6], HighHealthConditions |-> f[7],
         affordability_score |-> orZero(parseFloat(f[8])),
         prosperity_score |-> orZero(parseFloat(f[9]))]

\* the body of the forEach callback: the rows one line adds to data
lineRows(line) == IF keepsLine(line) THEN <<rowOf(line)>> ELSE <<>>

\* lineRows tabulated on the lines of the pool, so that it is computed once per line
lineRowsOfPool == [line \in CsvLinePool \cup LoaderLinePool \cup FlagLinePool |-> lineRows(line)]

RECURSIVE parseLines(_)
parseLines(lines) ==
    IF lines = <<>> THEN <<>>
    ELSE (IF Head(lines) \in DOMAIN lineRowsOfPool THEN lineRowsOfPool[Head(lines)]
          ELSE lineRows(Head(lines)))
         \o parseLines(Tail(lines))

\* mutant: the first line is parsed like the others
parseCSV_KeepsFirstLine(text) == parseLines(text)

\* text.split('\n').slice(1), then the forEach: text is given as its lines
parseCSV(text) == parseLines(Tail(text))

-----------------------------------------------------------------------------
(* Row matcher *)

STR_TRUE  == <<"T","R","U","E">>
STR_FALSE == <<"F","A","L","S","E">>
STR_Y == <<"Y">>
STR_N == <<"N">>

\* mutant: null is read as a boolean (falsy), as before the wildcard was introduced
isMetroMatch_NullAsFalse(row, fd) ==
    toUpperCase(trim(row.isMetro)) = (IF fd.isMetro = "true" THEN STR_TRUE ELSE STR_FALSE)

isMetroMatch(row, fd) ==
    LET csvIsMetro == toUpperCase(trim(row.isMetro))
    IN  IF fd.isMetro = "null" THEN TRUE
        ELSE csvIsMetro = (IF fd.isMetro = "true" THEN STR_TRUE ELSE STR_FALSE)

\* mutant: the kid count is used as given
effectiveNumKids_NoCollapse(fd) == fd.numKids

effectiveNumKids(fd) == IF fd.numKids >= 3 THEN 3 ELSE fd.numKids

numKidsMatch(row, fd) ==
    LET rowNumKids == parseInt(trim(row.numKids))
    IN  ~rowNumKids.nan /\ rowNumKids.v = effectiveNumKids(fd)

numAdultsMatch(row, fd) ==
    LET rowNumAdults == parseInt(trim(row.numAdults))
    IN  ~rowNumAdults.nan /\ rowNumAdults.v = fd.numAdults

ynMatch(token, answer) ==
    toUpperCase(trim(token)) = (IF answer THEN STR_Y ELSE STR_N)

highFoodMatch(row, fd)    == ynMatch(row.HighFood, fd.HighFood)
lowTransportMatch(row, fd) == ynMatch(row.LowTransportation, fd.LowTransportation)
highHealthMatch(row, fd)  == ynMatch(row.HighHealthConditions, fd.HighHealthConditions)

\* the filter callback
rowMatches(row, fd) ==
    /\ isMetroMatch(row, fd)
    /\ numKidsMatch(row, fd)
    /\ numAdultsMatch(row, fd)
    /\ highFoodMatch(row, fd)
    /\ lowTransportMatch(row, fd)
    /\ highHealthMatch(row, fd)

matchingRows(rows, fd) == SelectSeq(rows, LAMBDA row : rowMatches(row, fd))

\* A JS Map as the sequence of its entries [key, value] in insertion order
mapHas(m, k) == \E i \in DOMAIN m : m[i].key = k
mapIndex(m, k) == CHOOSE i \in DOMAIN m : m[i].key = k
mapGet(m, k) == m[mapIndex(m, k)].value
\* mutant: every set adds an entry
mapSet_Append(m, k, v) == Append(m, [key |-> k, value |-> v])

\* Map.prototype.set: an existing key keeps its position
mapSet(m, k, v) ==
    IF mapHas(m, k) THEN [m EXCEPT ![mapIndex(m, k)] = [key |-> k, value |-> v]]
    ELSE Append(m, [key |-> k, value |-> v])

\* mutant: every merge halves the sum of the stored and the incoming value
runningMean_Halve(old, incoming, count) == RDiv(RAdd(old, incoming), Num(2))

\* the running mean of one score field
runningMean(old, incoming, count) ==
    RDiv(RAdd(RMul(old, Num(count - 1)), incoming), Num(count))

\* one iteration of matchingRows.forEach over [scoresMap, countyCounts]
aggregateRow(acc, row) ==
    IF mapHas(acc.scoresMap, row.county)
    THEN LET existing == mapGet(acc.scoresMap, row.county)
             count == (IF mapHas(acc.countyCounts, row.county)
                          /\ mapGet(acc.countyCounts, row.county) # 0
                       THEN mapGet(acc.countyCounts, row.county) ELSE 1) + 1
         IN  [scoresMap |->
                 mapSet(acc.scoresMap, row.county,
                        [county |-> row.county,
                         affordability_score |->
                             runningMean(existing.affordability_score,
                                         row.affordability_score, count),
                         prosperity_score |->
                             runningMean(existing.prosperity_score,
                                         row.prosperity_score, count)]),
              countyCounts |-> mapSet(acc.countyCounts, row.county, count)]
    ELSE [scoresMap |->
             mapSet(acc.scoresMap, row.county,
                    [county |-> row.county,
                     affordability_score |-> row.affordability_score,
                     prosperity_score |-> row.prosperity_score]),
          countyCounts |-> mapSet(acc.countyCounts, row.county, 1)]

\* the state of the two maps after the forEach has visited every row of rows
RECURSIVE aggregate(_)
aggregate(rows) ==
    IF rows = <<>> THEN [scoresMap |-> <<>>, countyCounts |-> <<>>]
    ELSE aggregateRow(aggregate(SubSeq(rows, 1, Len(rows) - 1)), rows[Len(rows)])

\* the map handed to setCountyScores
matchScores(rows, fd) == aggregate(matchingRows(rows, fd)).scoresMap

-----------------------------------------------------------------------------
(* Name normalizer and geography joiner *)

STR_US == <<"U","S">>
STR_sp_county == <<" ","c","o","u","n","t","y">>
STR_sp_parish == <<" ","p","a","r","i","s","h">>

\* mutant: the suffixes are removed before the name is lower-cased
normalizeCountyName_CaseSensitive(name) ==
    toLowerCase(trim(removeAll(removeAll(collapseSpaces(name), STR_sp_county),
                               STR_sp_parish)))

normalizeCountyName(name) ==
    trim(removeAll(removeAll(collapseSpaces(toLowerCase(name)), STR_sp_county),
                   STR_sp_parish))

\* the lookup table as its <<key, value>> pairs
stateFipsToAbbrev == <<
    <<<<"0","1">>, <<"A","L">>>>, <<<<"0","2">>, <<"A","K">>>>, <<<<"0","4">>, <<"A","Z">>>>,
    <<<<"0","5">>, <<"A","R">>>>, <<<<"0","6">>, <<"C","A">>>>, <<<<"0","8">>, <<"C","O">>>>,
    <<<<"0","9">>, <<"C","T">>>>, <<<<"1","0">>, <<"D","E">>>>, <<<<"1","1">>, <<"D","C">>>>,
    <<<<"1","2">>, <<"F","L">>>>, <<<<"1","3">>, <<"G","A">>>>, <<<<"1","5">>, <<"H","I">>>>,
    <<<<"1","6">>, <<"I","D">>>>, <<<<"1","7">>, <<"I","L">>>>, <<<<"1","8">>, <<"I","N">>>>,
    <<<<"1","9">>, <<"I","A">>>>, <<<<"2","0">>, <<"K","S">>>>, <<<<"2","1">>, <<"K","Y">>>>,
    <<<<"2","2">>, <<"L","A">>>>, <<<<"2","3">>, <<"M","E">>>>, <<<<"2","4">>, <<"M","D">>>>,
    <<<<"2","5">>, <<"M","A">>>>, <<<<"2","6">>, <<"M","I">>>>, <<<<"2","7">>, <<"M","N">>>>,
    <<<<"2","8">>, <<"M","S">>>>, <<<<"2","9">>, <<"M","O">>>>, <<<<"3","0">>, <<"M","T">>>>,
    <<<<"3","1">>, <<"N","E">>>>, <<<<"3","2">>, <<"N","V">>>>, <<<<"3","3">>, <<"N","H">>>>,
    <<<<"3","4">>, <<"N","J">>>>, <<<<"3","5">>, <<"N","M">>>>, <<<<"3","6">>, <<"N","Y">>>>,
    <<<<"3","7">>, <<"N","C">>>>, <<<<"3","8">>, <<"N","D">>>>, <<<<"3","9">>, <<"O","H">>>>,
    <<<<"4","0">>, <<"O","K">>>>, <<<<"4","1">>, <<"O","R">>>>, <<<<"4","2">>, <<"P","A">>>>,
    <<<<"4","4">>, <<"R","I">>>>, <<<<"4","5">>, <<"S","C">>>>, <<<<"4","6">>, <<"S","D">>>>,
    <<<<"4","7">>, <<"T","N">>>>, <<<<"4","8">>, <<"T","X">>>>, <<<<"4","9">>, <<"U","T">>>>,
    <<<<"5","0">>, <<"V","T">>>>, <<<<"5","1">>, <<"V","A">>>>, <<<<"5","3">>, <<"W","A">>>>,
    <<<<"5","4">>, <<"W","V">>>>, <<<<"5","5">>, <<"W","I">>>>, <<<<"5","6">>, <<"W","Y">>>> >>

\* stateFipsToAbbrev[stateFips] || ''
abbrevOf(stateFips) ==
    IF \E i \in DOMAIN stateFipsToAbbrev : stateFipsToAbbrev[i][1] = stateFips
    THEN stateFipsToAbbrev[CHOOSE i \in DOMAIN stateFipsToAbbrev :
                               stateFipsToAbbrev[i][1] = stateFips][2]
    ELSE <<>>

\* String.prototype.slice(0, 2)
slice02(s) == SubSeq(s, 1, IF Len(s) < 2 THEN Len(s) ELSE 2)

\* fips.split('US')[1]?.slice(0, 2) || ''
stateFipsOf(fips) ==
    LET parts == split(fips, STR_US)
    IN  IF Len(parts) >= 2 THEN slice02(parts[2]) ELSE <<>>

\* the test of the match loop on one entry of the score map
entryMatches(csvKey, normalizedCounty, stateAbbrevUpper) ==
    LET csvParts == split(csvKey, SP)
        csvCounty == join(SubSeq(csvParts, 1, Len(csvParts) - 1), SP)
        csvState == csvParts[Len(csvParts)]
        normalizedCsvCounty == normalizeCountyName(csvCounty)
    IN  /\ csvState = stateAbbrevUpper
        /\ \/ normalizedCsvCounty = normalizedCounty
           \/ includes(normalizedCsvCounty, normalizedCounty)
           \/ includes(normalizedCounty, normalizedCsvCounty)

\* mutant: the loop has no break, so the last matching entry is taken
RECURSIVE matchLoop_NoBreak(_, _, _, _)
matchLoop_NoBreak(scores, i, normalizedCounty, stateAbbrevUpper) ==
    IF i > Len(scores) THEN 0
    ELSE LET later == matchLoop_NoBreak(scores, i + 1, normalizedCounty, stateAbbrevUpper)
         IN  IF later # 0 THEN later
             ELSE IF entryMatches(scores[i].key, normalizedCounty, stateAbbrevUpper) THEN i
             ELSE 0

\* the for-of loop with its break: the index of the entry taken, 0 when the loop
\* runs to its end
RECURSIVE matchLoop(_, _, _, _)
matchLoop(scores, i, normalizedCounty, stateAbbrevUpper) ==
    IF i > Len(scores) THEN 0
    ELSE IF entryMatches(scores[i].key, normalizedCounty, stateAbbrevUpper) THEN i
    ELSE matchLoop(scores, i + 1, normalizedCounty, stateAbbrevUpper)

minScore == -1
maxScore == 2

\* mutant: the normalised value is not clamped
normalizeScore_NoClamp(x) == RDiv(RSub(x, Num(minScore)), Num(maxScore - minScore))

\* Math.max(0, Math.min(1, (x - minScore) / (maxScore - minScore)))
normalizeScore(x) ==
    RMax(Zero, RMin(Num(1), RDiv(RSub(x, Num(minScore)), Num(maxScore - minScore))))

recommendationScore(affordabilityScore, prosperityScore) ==
    LET normalizedAffordability == normalizeScore(affordabilityScore)
        normalizedProsperity == normalizeScore(prosperityScore)
        invertedAffordability == RSub(Num(1), normalizedAffordability)
        recommendationNormalized ==
            RDiv(RAdd(invertedAffordability, normalizedProsperity), Num(2))
    IN  RAdd(RMul(recommendationNormalized, Num(maxScore - minScore)), Num(minScore))

\* mutant: the two raw score types are exchanged
scoreFor_Swapped(st, affordabilityScore, prosperityScore) ==
    IF st = "recommendation" THEN recommendationScore(affordabilityScore, prosperityScore)
    ELSE IF st = "affordability" THEN prosperityScore
    ELSE affordabilityScore

\* the displayed score
scoreFor(st, affordabilityScore, prosperityScore) ==
    IF st = "recommendation" THEN recommendationScore(affordabilityScore, prosperityScore)
    ELSE IF st = "affordability" THEN affordabilityScore
    ELSE prosperityScore

\* mutant: the join writes the normalised name back into the feature's NAME
processFeature_RenamesInput(feature, scores, st) ==
    LET countyName == feature.NAME
        stateAbbrev == abbrevOf(stateFipsOf(feature.GEO_ID))
        normalizedCounty == normalizeCountyName(countyName)
        hit == matchLoop(scores, 1, normalizedCounty, slice02(toUpperCase(stateAbbrev)))
        affordabilityScore == IF hit = 0 THEN Zero ELSE scores[hit].value.affordability_score
        prosperityScore == IF hit = 0 THEN Zero ELSE scores[hit].value.prosperity_score
    IN  [NAME |-> normalizedCounty, GEO_ID |-> feature.GEO_ID,
         score |-> scoreFor(st, affordabilityScore, prosperityScore),
         affordabilityScore |-> affordabilityScore,
         prosperityScore |-> prosperityScore,
         fullName |-> trim(countyName \o SP \o stateAbbrev),
         countyName |-> countyName,
         stateAbbrev |-> stateAbbrev]

\* the callback of data.features.map
processFeature(feature, scores, st) ==
    LET countyName == feature.NAME
        stateAbbrev == abbrevOf(stateFipsOf(feature.GEO_ID))
        fullName == trim(countyName \o SP \o stateAbbrev)
        normalizedCounty == normalizeCountyName(countyName)
        stateAbbrevUpper == slice02(toUpperCase(stateAbbrev))
        hit == matchLoop(scores, 1, normalizedCounty, stateAbbrevUpper)
        affordabilityScore == IF hit = 0 THEN Zero ELSE scores[hit].value.affordability_score
        prosperityScore == IF hit = 0 THEN Zero ELSE scores[hit].value.prosperity_score
    IN  [NAME |-> feature.NAME, GEO_ID |-> feature.GEO_ID,
         score |-> scoreFor(st, affordabilityScore, prosperityScore),
         affordabilityScore |-> affordabilityScore,
         prosperityScore |-> prosperityScore,
         fullName |-> fullName,
         countyName |-> countyName,
         stateAbbrev |-> stateAbbrev]

\* mutant: the join reads the score type of the current render, not the one
\* the call captured
processedFeatures_CurrentScoreType(features, scores, st) ==
    [i \in DOMAIN features |-> processFeature(features[i], scores, scoreType)]

processedFeatures(features, scores, st) ==
    [i \in DOMAIN features |-> processFeature(features[i], scores, st)]

-----------------------------------------------------------------------------
(* Colour mapper, feature style and tooltip *)

NeutralColor == <<"#e8e3d8">>

\* Math.floor(c0 + t * (c1 - c0))
channel(c0, c1, t) == RFloor(RAdd(Num(c0), RMul(t, Num(c1 - c0))))

\* mutant: a score of 0 is coloured like any other score
getColor_NoZeroCase(score, st) ==
    LET n0 == normalizeScore(score)
        normalized == IF st = "affordability" THEN RSub(Num(1), n0) ELSE n0
    IN  IF RLt(normalized, Rat(1, 2))
        THEN LET t == RMul(normalized, Num(2))
             IN  <<"rgb", channel(220, 234, t), channel(38, 179, t), channel(38, 8, t)>>
        ELSE LET t == RMul(RSub(normalized, Rat(1, 2)), Num(2))
             IN  <<"rgb", channel(234, 34, t), channel(179, 197, t), channel(8, 94, t)>>

\* mutant: the normalized value is not flipped for affordability
getColor_NoFlip(score, st) ==
    IF score = Zero THEN NeutralColor
    ELSE LET normalized == normalizeScore(score)
         IN  IF RLt(normalized, Rat(1, 2))
             THEN LET t == RMul(normalized, Num(2))
                  IN  <<"rgb", channel(220, 234, t), channel(38, 179, t), channel(38, 8, t)>>
             ELSE LET t == RMul(RSub(normalized, Rat(1, 2)), Num(2))
                  IN  <<"rgb", channel(234, 34, t), channel(179, 197, t), channel(8, 94, t)>>

getColor(score, st) ==
    IF score = Zero THEN NeutralColor
    ELSE LET n0 == normalizeScore(score)
             normalized == IF st = "affordability" THEN RSub(Num(1), n0) ELSE n0
         IN  IF RLt(normalized, Rat(1, 2))
             THEN LET t == RMul(normalized, Num(2))
                  IN  <<"rgb", channel(220, 234, t), channel(38, 179, t), channel(38, 8, t)>>
             ELSE LET t == RMul(RSub(normalized, Rat(1, 2)), Num(2))
                  IN  <<"rgb", channel(234, 34, t), channel(179, 197, t), channel(8, 94, t)>>

\* style(feature).fillColor, with score = feature.properties?.score || 0
fillColorOf(feature, st) == getColor(orZero(feature.score), st)

\* which of the three tooltip bodies onEachFeature binds
tooltipOf(feature, st) ==
    IF orZero(feature.score) = Zero THEN "No data available"
    ELSE IF st = "recommendation" THEN "recommendation, affordability, prosperity"
    ELSE "current score, other score"

-----------------------------------------------------------------------------
(* What the component renders *)

NoError == "(null)"
NoData == [loaded |-> FALSE, features |-> <<>>]

\* the render branches with the error test after the initial-state test
View_InitialBeforeError ==
    IF loading THEN "Loading map data..."
    ELSE IF ~hasCalculated /\ Len(countyScores) = 0 /\ ~loading
         THEN "Map will update as you adjust the form"
    ELSE IF error # NoError THEN "error"
    ELSE "map"

View ==
    IF loading THEN "Loading map data..."
    ELSE IF error # NoError THEN "error"
    ELSE IF ~hasCalculated /\ Len(countyScores) = 0 /\ ~loading
         THEN "Map will update as you adjust the form"
    ELSE "map"

\* the GeoJSON layer is part of the map
layerShown == View = "map" /\ geoJsonData.loaded /\ Len(countyScores) > 0

-----------------------------------------------------------------------------
(* The prosperity page Home: its normalizer, its lookup and its join *)

\* a value that is undefined (a missing column, a missing table entry)
Undefined == <<"(undefined)">>

\* the alternatives of the suffix pattern /\s+(county|parish|...)$/u
PlaceSuffixes ==
    {<<"c","o","u","n","t","y">>,
     <<"p","a","r","i","s","h">>,
     <<"b","o","r","o","u","g","h">>,
     <<"c","e","n","s","u","s"," ","a","r","e","a">>,
     <<"c","i","t","y"," ","a","n","d"," ","b","o","r","o","u","g","h">>,
     <<"c","i","t","y">>,
     <<"m","u","n","i","c","i","p","a","l","i","t","y">>,
     <<"d","i","s","t","r","i","c","t">>,
     <<"c","e","n","s","u","s"," ","d","i","s","t","r","i","c","t">>,
     <<"m","u","n","i","c","i","p","i","o">>,
     <<"i","s","l","a","n","d">>,
     <<"t","o","w","n","s","h","i","p">>,
     <<"b","o","r","o","u","g","h"," ","a","n","d"," ","c","e","n","s","u","s"," ","a","r","e","a">>}

\* the characters kept by replace(/[^a-z0-9]/g, "")
AlphaNumerics ==
    {LowerLetters[i] : i \in DOMAIN LowerLetters} \cup {Digits[i] : i \in DOMAIN Digits}

\* replace(/\s+(...)$/u, ""): the match starts at the leftmost whitespace from
\* which a run of whitespace and one alternative reach the end of the string
stripPlaceSuffix(t) ==
    LET starts == {i \in 1..Len(t) :
                      /\ t[i] \in Whitespace
                      /\ trimStart(SubSeq(t, i, Len(t))) \in PlaceSuffixes}
    IN  IF starts = {} THEN t
        ELSE SubSeq(t, 1, (CHOOSE i \in starts : \A j \in starts : i <= j) - 1)

\* normalizeCountyName of the page
homeNormalizeCountyName(value) ==
    SelectSeq(stripPlaceSuffix(toLowerCase(trim(value))),
              LAMBDA c : c \in AlphaNumerics)

\* String.prototype.slice(-2) and slice(0, -3)
sliceLast2(s) == SubSeq(s, IF Len(s) < 2 THEN 1 ELSE Len(s) - 1, Len(s))
sliceButLast3(s) == SubSeq(s, 1, Len(s) - 3)

extractCountyAndState(entry) ==
    LET trimmed == trim(entry)
    IN  [countyName |-> trim(sliceButLast3(trimmed)),
         stateAbbr |-> trim(sliceLast2(trimmed))]

STR_prosperity_score == <<"p","r","o","s","p","e","r","i","t","y","_","s","c","o","r","e">>

\* the position of a column in the header, 0 when the header has no such column
columnOf(header, name) ==
    LET cols == split(header, COMMA)
    IN  IF \E i \in DOMAIN cols : cols[i] = name
        THEN CHOOSE i \in DOMAIN cols : cols[i] = name /\ \A j \in 1..(i - 1) : cols[j] # name
        ELSE 0

\* one object of csvParse: the fields of a line under the header's column names
csvObject(header, line) ==
    LET parts == split(line, COMMA)
        at(name) == LET c == columnOf(header, name)
                    IN  IF c = 0 \/ c > Len(parts) THEN Undefined ELSE parts[c]
    IN  [county |-> at(STR_county), prosperity_score |-> at(STR_prosperity_score)]

\* csvObject tabulated on the lines of the pool
csvObjectOfPool == [line \in CsvLinePool |-> csvObject(HomeHeaderLine, line)]

\* csvParse(csvResponse): the text is given as its lines, the first is the header
csvParse(text) ==
    [i \in 1..(Len(text) - 1) |->
        IF text[1] = HomeHeaderLine /\ text[i + 1] \in CsvLinePool
        THEN csvObjectOfPool[text[i + 1]]
        ELSE csvObject(text[1], text[i + 1])]

\* one iteration of the loop over parsedRows
lookupRow(lookup, row) ==
    IF row.county = Undefined \/ row.county = <<>> \/ row.prosperity_score = Undefined
    THEN lookup
    ELSE LET cs == extractCountyAndState(row.county)
             normalizedCounty == homeNormalizeCountyName(cs.countyName)
             parsedValue == parseFloat(row.prosperity_score)
         IN  IF isNaN(parsedValue) \/ Len(normalizedCounty) = 0 \/ Len(cs.stateAbbr) # 2
             THEN lookup
             ELSE mapSet(lookup, <<normalizedCounty, cs.stateAbbr>>, parsedValue)

RECURSIVE prosperityLookupFrom(_, _)
prosperityLookupFrom(lookup, rows) ==
    IF rows = <<>> THEN lookup
    ELSE prosperityLookupFrom(lookupRow(lookup, Head(rows)), Tail(rows))

prosperityLookup(parsedRows) == prosperityLookupFrom(<<>>, parsedRows)

\* stateFipsToAbbr[stateFips] of the page (the same 51 entries)
stateFipsToAbbr(stateFips) ==
    IF \E i \in DOMAIN stateFipsToAbbrev : stateFipsToAbbrev[i][1] = stateFips
    THEN abbrevOf(stateFips)
    ELSE Undefined

\* the value null of a feature without prosperity
Null == [null |-> TRUE]

\* the callback of countiesFeatureCollection.features.map
countyWithValue(countyFeature, lookup) ==
    LET stateAbbr == stateFipsToAbbr(slice02(countyFeature.id))
        lookupKey == <<homeNormalizeCountyName(countyFeature.name), stateAbbr>>
    IN  [id |-> countyFeature.id, name |-> countyFeature.name, stateAbbr |-> stateAbbr,
         prosperity |-> IF mapHas(lookup, lookupKey) THEN mapGet(lookup, lookupKey)
                        ELSE Null]

countiesWithValues(features, lookup) ==
    [i \in DOMAIN features |-> countyWithValue(features[i], lookup)]

\* extent(prosperityValues): [min, max], [undefined, undefined] on no value
extent(values) ==
    IF values = {} THEN <<Undefined, Undefined>>
    ELSE <<CHOOSE v \in values : \A w \in values : RLe(v, w),
           CHOOSE v \in values : \A w \in values : RLe(w, v)>>

NoMapData == [loaded |-> FALSE]

\* the value given to setMapData (stateBorders is left out)
buildMapData(csvResponse, features) ==
    LET lookup == prosperityLookup(csvParse(csvResponse))
        counties == countiesWithValues(features, lookup)
        prosperityValues == {counties[i].prosperity : i \in
                                {j \in DOMAIN counties : counties[j].prosperity # Null}}
    IN  [loaded |-> TRUE, counties |-> counties, prosperityById |-> lookup,
         valueExtent |-> extent(prosperityValues)]

\* what the page renders: the error box, and the placeholder or the map
homeShowsError == homeError # NoError
homeShowsLoading == ~mapData.loaded
homeShowsMap == mapData.loaded

-----------------------------------------------------------------------------
(* The component: mount, the two fetches and the two effects *)

\* state after the first render and its effects: loadCSVData is in flight, the
\* matcher effect returned on the empty table, loadGeoJSON was not called
Mounted ==
    /\ csvFetch = "pending"
    /\ csvText = <<>>
    /\ allCSVData = <<>>
    /\ countyScores = <<>>
    /\ geoJsonData = NoData
    /\ loading = TRUE
    /\ error = NoError
    /\ hasCalculated = FALSE
    /\ matcherDue = FALSE
    /\ geoDue = FALSE
    /\ geoFetches = <<>>

\* no pure function is studied on its own
FnIdle == fnArg = <<>> /\ fnResults = <<>>

\* the page Home is not part of the application that mounts the component
HomeNotMounted ==
    /\ homeCsv = [status |-> "none", body |-> <<>>]
    /\ homeTopo = [status |-> "none", body |-> <<>>]
    /\ mapData = NoMapData
    /\ homeError = NoError

Init ==
    /\ formData \in PipelineAnswers
    /\ scoreType \in ScoreTypes
    /\ Mounted
    /\ HomeNotMounted
    /\ FnIdle

\* loadCSVData: the response arrived and was parsed
LoadCSV(texts) ==
    /\ csvFetch = "pending"
    /\ \E text \in texts :
          /\ csvText' = text
          /\ allCSVData' = parseCSV(text)
    /\ csvFetch' = "done"
    /\ loading' = FALSE
    /\ matcherDue' = TRUE
    /\ UNCHANGED <<formData, scoreType, countyScores, geoJsonData, error,
                   hasCalculated, geoDue, geoFetches>>
    /\ UNCHANGED <<homeVars, fnVars>>

LoadCSVSuccess == LoadCSV(CsvTexts)

\* loadCSVData: fetch rejected or response not ok
LoadCSVFailure ==
    /\ csvFetch = "pending"
    /\ csvFetch' = "failed"
    /\ error' = "Failed to load data"
    /\ loading' = FALSE
    /\ UNCHANGED <<formData, scoreType, allCSVData, countyScores, geoJsonData,
                   hasCalculated, matcherDue, geoDue, geoFetches>>
    /\ UNCHANGED <<csvText, homeVars, fnVars>>

\* mutant: the effect has neither the early return nor the test on the table
\* length before setHasCalculated(true)
MatcherEffect_AlwaysCalculated ==
    /\ matcherDue
    /\ matcherDue' = FALSE
    /\ countyScores' = matchScores(allCSVData, formData)
    /\ hasCalculated' = TRUE
    /\ geoDue' = TRUE
    /\ UNCHANGED <<formData, scoreType, csvFetch, allCSVData, geoJsonData, loading,
                   error, geoFetches>>
    /\ UNCHANGED <<csvText, homeVars, fnVars>>

\* the forEach started from maps that already hold entries
RECURSIVE aggregateInto(_, _)
aggregateInto(acc, rows) ==
    IF rows = <<>> THEN acc
    ELSE aggregateRow(aggregateInto(acc, SubSeq(rows, 1, Len(rows) - 1)), rows[Len(rows)])

\* mutant: the effect adds the matching rows to the score map it finds
MatcherEffect_PatchesInPlace ==
    /\ matcherDue
    /\ matcherDue' = FALSE
    /\ IF Len(allCSVData) = 0
       THEN UNCHANGED <<countyScores, hasCalculated, geoDue>>
       ELSE /\ countyScores' =
                   aggregateInto([scoresMap |-> countyScores, countyCounts |-> <<>>],
                                 matchingRows(allCSVData, formData)).scoresMap
            /\ hasCalculated' = TRUE
            /\ geoDue' = TRUE
    /\ UNCHANGED <<formData, scoreType, csvFetch, allCSVData, geoJsonData, loading,
                   error, geoFetches>>
    /\ UNCHANGED <<csvText, homeVars, fnVars>>

\* the effect on [allCSVData, formData]
MatcherEffect ==
    /\ matcherDue
    /\ matcherDue' = FALSE
    /\ IF Len(allCSVData) = 0
       THEN UNCHANGED <<countyScores, hasCalculated, geoDue>>
       ELSE /\ countyScores' = matchScores(allCSVData, formData)
            /\ hasCalculated' = TRUE
            /\ geoDue' = TRUE
    /\ UNCHANGED <<formData, scoreType, csvFetch, allCSVData, geoJsonData, loading,
                   error, geoFetches>>
    /\ UNCHANGED <<csvText, homeVars, fnVars>>

\* the condition under which the effect calls loadGeoJSON
callsLoadGeoJSON_Always(scores) == TRUE

callsLoadGeoJSON(scores) == Len(scores) > 0

\* the effect on [countyScores, scoreType]: loadGeoJSON is called on a non-empty map
GeoEffect ==
    /\ geoDue
    /\ geoDue' = FALSE
    /\ geoFetches' = IF callsLoadGeoJSON(countyScores)
                     THEN Append(geoFetches,
                                 [countyScores |-> countyScores, scoreType |-> scoreType])
                     ELSE geoFetches
    /\ UNCHANGED <<formData, scoreType, csvFetch, allCSVData, countyScores, geoJsonData,
                   loading, error, hasCalculated, matcherDue>>
    /\ UNCHANGED <<csvText, homeVars, fnVars>>

removeAt(q, i) == SubSeq(q, 1, i - 1) \o SubSeq(q, i + 1, Len(q))

\* mutant: a geography response that arrives also clears the error
GeoFetchSuccess_ClearsError ==
    \E i \in DOMAIN geoFetches :
        /\ geoJsonData' =
               [loaded |-> TRUE,
                features |-> processedFeatures(GeoFeatures, geoFetches[i].countyScores,
                                               geoFetches[i].scoreType)]
        /\ loading' = FALSE
        /\ error' = NoError
        /\ geoFetches' = removeAt(geoFetches, i)
        /\ UNCHANGED <<formData, scoreType, csvFetch, allCSVData, countyScores,
                       hasCalculated, matcherDue, geoDue>>
        /\ UNCHANGED <<csvText, homeVars, fnVars>>

\* loadGeoJSON: the response arrived; the join uses what the call captured
GeoFetchSuccess ==
    \E i \in DOMAIN geoFetches :
        /\ geoJsonData' =
               [loaded |-> TRUE,
                features |-> processedFeatures(GeoFeatures, geoFetches[i].countyScores,
                                               geoFetches[i].scoreType)]
        /\ loading' = FALSE
        /\ geoFetches' = removeAt(geoFetches, i)
        /\ UNCHANGED <<formData, scoreType, csvFetch, allCSVData, countyScores, error,
                       hasCalculated, matcherDue, geoDue>>
        /\ UNCHANGED <<csvText, homeVars, fnVars>>

\* loadGeoJSON: fetch rejected or response not ok
GeoFetchFailure ==
    \E i \in DOMAIN geoFetches :
        /\ error' = "Failed to load map data"
        /\ loading' = FALSE
        /\ geoFetches' = removeAt(geoFetches, i)
        /\ UNCHANGED <<formData, scoreType, csvFetch, allCSVData, countyScores,
                       geoJsonData, hasCalculated, matcherDue, geoDue>>
        /\ UNCHANGED <<csvText, homeVars, fnVars>>

Next ==
    \/ LoadCSVSuccess
    \/ LoadCSVFailure
    \/ MatcherEffect
    \/ GeoEffect
    \/ GeoFetchSuccess
    \/ GeoFetchFailure

Spec == Init /\ [][Next]_vars

\* the matcher alone, on every answer set: the table loads and the effect runs
MatchInit ==
    /\ formData \in Answers
    /\ scoreType = "affordability"
    /\ Mounted
    /\ HomeNotMounted
    /\ FnIdle

MatchNext ==
    \/ LoadCSVSuccess
    \/ LoadCSVFailure
    \/ MatcherEffect

MatchSpec == MatchInit /\ [][MatchNext]_vars

-----------------------------------------------------------------------------
(* The page Home: one effect that awaits both fetches with Promise.all *)

\* the response texts of modelData.csv: the header and up to MaxHomeRows distinct lines
HomeCsvTexts ==
    {<<HomeHeaderLine>> \o body : body \in DistinctSeqsUpTo(CsvLinePool, MaxHomeRows)}

\* id '51059', name 'Fairfax'
County1 == [id |-> <<"5","1","0","5","9">>, name |-> <<"F","a","i","r","f","a","x">>]
\* id '01081', name 'Lee'
County2 == [id |-> <<"0","1","0","8","1">>, name |-> <<"L","e","e">>]
\* id '51105', name 'Lee'
County3 == [id |-> <<"5","1","1","0","5">>, name |-> <<"L","e","e">>]
\* id '72113', name 'Ponce' (no entry in stateFipsToAbbr)
County4 == [id |-> <<"7","2","1","1","3">>, name |-> <<"P","o","n","c","e">>]

\* the county features of the topology response
HomeTopologies ==
    {<<>>, <<County1, County2>>, <<County1, County2, County3, County4>>}

\* messages of a rejected modelData.csv promise: the response is not ok, or
\* fetch itself rejects
HomeCsvErrors == {"Unable to read modelData.csv", "Failed to fetch"}

\* messages of a rejected topology promise: not ok, fetch rejects, or res.json() rejects
HomeTopoErrors ==
    {"Unable to read counties topology", "Failed to fetch", "Unexpected token in JSON"}

\* the other application is not mounted: the component's state stays as constructed
MapNotMounted ==
    /\ formData = CHOOSE fd \in PipelineAnswers : TRUE
    /\ scoreType = "affordability"
    /\ csvFetch = "none"
    /\ csvText = <<>>
    /\ allCSVData = <<>>
    /\ countyScores = <<>>
    /\ geoJsonData = NoData
    /\ loading = TRUE
    /\ error = NoError
    /\ hasCalculated = FALSE
    /\ matcherDue = FALSE
    /\ geoDue = FALSE
    /\ geoFetches = <<>>

\* Home after its first render and effect: both fetches are in flight
HomeInit ==
    /\ homeCsv = [status |-> "pending", body |-> <<>>]
    /\ homeTopo = [status |-> "pending", body |-> <<>>]
    /\ mapData = NoMapData
    /\ homeError = NoError
    /\ MapNotMounted
    /\ FnIdle

\* modelData.csv arrived; when the topology is there too, Promise.all
\* fulfils and loadData goes on to setMapData
HomeCsvResolved ==
    /\ homeCsv.status = "pending"
    /\ \E text \in HomeCsvTexts :
          /\ homeCsv' = [status |-> "resolved", body |-> text]
          /\ mapData' = IF homeTopo.status = "resolved"
                        THEN buildMapData(text, homeTopo.body)
                        ELSE mapData
    /\ UNCHANGED <<homeTopo, homeError>>
    /\ UNCHANGED <<mapVars, fnVars>>

\* the modelData.csv promise rejected; the catch block runs on the first
\* rejection of Promise.all only
HomeCsvRejected ==
    /\ homeCsv.status = "pending"
    /\ homeCsv' = [status |-> "rejected", body |-> <<>>]
    /\ \E msg \in HomeCsvErrors :
          homeError' = IF homeTopo.status = "rejected" THEN homeError ELSE msg
    /\ UNCHANGED <<homeTopo, mapData>>
    /\ UNCHANGED <<mapVars, fnVars>>

\* the topology arrived
HomeTopoResolved ==
    /\ homeTopo.status = "pending"
    /\ \E features \in HomeTopologies :
          /\ homeTopo' = [status |-> "resolved", body |-> features]
          /\ mapData' = IF homeCsv.status = "resolved"
                        THEN buildMapData(homeCsv.body, features)
                        ELSE mapData
    /\ UNCHANGED <<homeCsv, homeError>>
    /\ UNCHANGED <<mapVars, fnVars>>

\* the topology promise rejected
HomeTopoRejected ==
    /\ homeTopo.status = "pending"
    /\ homeTopo' = [status |-> "rejected", body |-> <<>>]
    /\ \E msg \in HomeTopoErrors :
          homeError' = IF homeCsv.status = "rejected" THEN homeError ELSE msg
    /\ UNCHANGED <<homeCsv, mapData>>
    /\ UNCHANGED <<mapVars, fnVars>>

HomeNext ==
    \/ HomeCsvResolved
    \/ HomeCsvRejected
    \/ HomeTopoResolved
    \/ HomeTopoRejected

HomeSpec == HomeInit /\ [][HomeNext]_vars

-----------------------------------------------------------------------------
(* The loader on malformed tables *)

LoaderInit ==
    /\ formData \in {a \in PipelineAnswers : a.isMetro = "null" /\ a.numKids = MaxKids}
    /\ scoreType = "affordability"
    /\ Mounted
    /\ HomeNotMounted
    /\ FnIdle

LoaderLoadCSVSuccess == LoadCSV(LoaderTexts)

LoaderNext ==
    \/ LoaderLoadCSVSuccess
    \/ LoadCSVFailure
    \/ MatcherEffect

LoaderSpec == LoaderInit /\ [][LoaderNext]_vars

-----------------------------------------------------------------------------
(* getColor on its own *)

ColorScores == {Rat(k, 8) : k \in (0 - MaxEighths)..MaxEighths}

ColorInit ==
    /\ fnArg \in [score : ColorScores, scoreType : ScoreTypes]
    /\ fnResults = <<>>
    /\ MapNotMounted
    /\ HomeNotMounted

\* getColor(score) in a render with the given scoreType
ApplyGetColor ==
    /\ fnResults = <<>>
    /\ fnResults' = <<getColor(fnArg.score, fnArg.scoreType)>>
    /\ UNCHANGED <<fnArg, mapVars, homeVars>>

ColorNext == ApplyGetColor

ColorSpec == ColorInit /\ [][ColorNext]_vars

-----------------------------------------------------------------------------
(* The matcher on tables whose flag columns use several encodings *)

\* the answers the flag lines are matched against
FlagAnswers == {a \in Answers : a.isMetro = "null" /\ a.numKids = 1}

FlagInit ==
    /\ formData \in FlagAnswers
    /\ scoreType = "affordability"
    /\ Mounted
    /\ HomeNotMounted
    /\ FnIdle

FlagLoadCSVSuccess == LoadCSV(FlagTexts)

FlagNext ==
    \/ FlagLoadCSVSuccess
    \/ LoadCSVFailure
    \/ MatcherEffect

FlagSpec == FlagInit /\ [][FlagNext]_vars

-----------------------------------------------------------------------------
(* The two normalizers on their own: applied to a name, then to their result *)

\* pieces of county names: a base name, the suffixes in several letter cases,
\* names that end in the first half of a suffix, second halves, a run of spaces
NameFragments ==
    {<<"M","o","n","t","g","o","m","e","r","y">>,
     <<" ","C","o","u","n","t","y">>,
     <<" ","C","O","U","N","T","Y">>,
     <<" ","P","a","r","i","s","h">>,
     <<"M"," ","c","o">>,
     <<"u","n","t","y">>,
     <<"M"," ","P","a","r">>,
     <<"i","s","h">>,
     <<" "," ">>,
     <<" ","C","i","t","y">>}

RECURSIVE NamesUpTo(_)
NamesUpTo(k) ==
    IF k = 0 THEN {<<>>}
    ELSE LET shorter == NamesUpTo(k - 1)
         IN  shorter \cup {n \o f : <<n, f>> \in shorter \X NameFragments}

Names == NamesUpTo(MaxFragments)

Normalizers == {"MapVisualization", "Home"}

NormInit ==
    /\ fnArg \in [fn : Normalizers, value : Names]
    /\ fnResults = <<>>
    /\ MapNotMounted
    /\ HomeNotMounted

\* the value the next application is given
nextArg == IF fnResults = <<>> THEN fnArg.value ELSE fnResults[Len(fnResults)]

\* normalizeCountyName of MapVisualization
ApplyNormalizeCountyName ==
    /\ fnArg.fn = "MapVisualization"
    /\ Len(fnResults) < MaxApplications
    /\ fnResults' = Append(fnResults, normalizeCountyName(nextArg))
    /\ UNCHANGED <<fnArg, mapVars, homeVars>>

\* normalizeCountyName of Home
ApplyHomeNormalizeCountyName ==
    /\ fnArg.fn = "Home"
    /\ Len(fnResults) < MaxApplications
    /\ fnResults' = Append(fnResults, homeNormalizeCountyName(nextArg))
    /\ UNCHANGED <<fnArg, mapVars, homeVars>>

NormNext ==
    \/ ApplyNormalizeCountyName
    \/ ApplyHomeNormalizeCountyName

NormSpec == NormInit /\ [][NormNext]_vars

-----------------------------------------------------------------------------
(* Properties of the row matcher *)

\* the matcher effect has run on a loaded, non-empty table
MatcherRan == csvFetch = "done" /\ ~matcherDue /\ Len(allCSVData) > 0

Keys(m) == {m[i].key : i \in DOMAIN m}

\* the rows of the table that pass the filter, by index
MatchedIdx == {i \in DOMAIN allCSVData : rowMatches(allCSVData[i], formData)}
MatchedIdxOf(county) == {i \in MatchedIdx : allCSVData[i].county = county}

\* what the metro condition has to be: a wildcard for null, else the token read
\* without its surrounding blanks and without regard to case
MetroHolds(row, fd) ==
    LET token == toUpperCase(trim(row.isMetro))
    IN  \/ fd.isMetro = "null"
        \/ fd.isMetro = "true" /\ token = STR_TRUE
        \/ fd.isMetro = "false" /\ token = STR_FALSE

OtherConditionsHold(row, fd) ==
    /\ numKidsMatch(row, fd)
    /\ numAdultsMatch(row, fd)
    /\ highFoodMatch(row, fd)
    /\ lowTransportMatch(row, fd)
    /\ highHealthMatch(row, fd)

\* C1: the metro condition holds for every row when answers.isMetro is null and
\* otherwise exactly when the row's trimmed, upper-cased token is TRUE (answer true)
\* or FALSE (answer false); a row is matched only if this and all the other
\* attribute conditions hold, so the counties of the score map are exactly the
\* counties of the rows that satisfy all of them.
C1_MetroCondition ==
    /\ \A i \in DOMAIN allCSVData :
           LET row == allCSVData[i]
           IN  /\ isMetroMatch(row, formData) = MetroHolds(row, formData)
               /\ rowMatches(row, formData) =>
                      MetroHolds(row, formData) /\ OtherConditionsHold(row, formData)
    /\ MatcherRan =>
           Keys(countyScores) =
               {allCSVData[i].county :
                    i \in {j \in DOMAIN allCSVData :
                               /\ MetroHolds(allCSVData[j], formData)
                               /\ OtherConditionsHold(allCSVData[j], formData)}}

\* a non-wildcard answer under which one row is kept through a lower-case token and
\* another row fails on the metro condition alone
C1_Witness ==
    /\ MatcherRan
    /\ formData.isMetro = "true"
    /\ \E i \in MatchedIdx : allCSVData[i].isMetro # STR_TRUE
    /\ \E i \in DOMAIN allCSVData :
           /\ ~MetroHolds(allCSVData[i], formData)
           /\ OtherConditionsHold(allCSVData[i], formData)
           /\ allCSVData[i].county \notin Keys(countyScores)

\* the answers with the kid count replaced by the bucket value 3
WithThreeKids(fd) == [fd EXCEPT !.numKids = 3]

\* C2: bucket collapse: with any numKids >= 3 the matcher produces the same matching
\* rows and the same score map as with numKids = 3; with numKids < 3 a row matches
\* only when its parsed numKids equals the answer.
C2_BucketCollapse ==
    /\ (MatcherRan /\ formData.numKids >= 3) =>
           /\ countyScores = matchScores(allCSVData, WithThreeKids(formData))
           /\ matchingRows(allCSVData, formData)
                  = matchingRows(allCSVData, WithThreeKids(formData))
           /\ \A i \in MatchedIdx : parseInt(allCSVData[i].numKids).v = 3
    /\ (MatcherRan /\ formData.numKids < 3) =>
           \A i \in MatchedIdx :
               /\ ~parseInt(allCSVData[i].numKids).nan
               /\ parseInt(allCSVData[i].numKids).v = formData.numKids

\* an answer above the bucket value whose score map is not empty
C2_Witness ==
    /\ MatcherRan
    /\ formData.numKids > 3
    /\ countyScores # <<>>

RECURSIVE SumAffordability(_)
SumAffordability(S) ==
    IF S = {} THEN Zero
    ELSE LET i == CHOOSE j \in S : TRUE
         IN  RAdd(allCSVData[i].affordability_score, SumAffordability(S \ {i}))

RECURSIVE SumProsperity(_)
SumProsperity(S) ==
    IF S = {} THEN Zero
    ELSE LET i == CHOOSE j \in S : TRUE
         IN  RAdd(allCSVData[i].prosperity_score, SumProsperity(S \ {i}))

\* C3: the CountyScore of a county with k >= 1 matching rows holds the arithmetic
\* mean of the k rows for both score fields, whatever their order; after the n-th
\* occurrence of a county the stored value is (old*(n-1) + incoming)/n and the
\* per-county counter is n.
C3_MeanAggregation ==
    MatcherRan =>
        /\ \A e \in DOMAIN countyScores :
               LET S == MatchedIdxOf(countyScores[e].key)
                   k == Cardinality(S)
               IN  /\ k >= 1
                   /\ countyScores[e].value.affordability_score
                          = Rat(SumAffordability(S).n, SumAffordability(S).d * k)
                   /\ countyScores[e].value.prosperity_score
                          = Rat(SumProsperity(S).n, SumProsperity(S).d * k)
        /\ LET m == matchingRows(allCSVData, formData)
           IN  \A p \in 1..Len(m) :
                   LET before == aggregate(SubSeq(m, 1, p - 1))
                       after == aggregate(SubSeq(m, 1, p))
                       c == m[p].county
                       n == Cardinality({j \in 1..p : m[j].county = c})
                       new == mapGet(after.scoresMap, c)
                   IN  /\ mapGet(after.countyCounts, c) = n
                       /\ n = 1 =>
                              /\ new.affordability_score = m[p].affordability_score
                              /\ new.prosperity_score = m[p].prosperity_score
                       /\ n > 1 =>
                              LET old == mapGet(before.scoresMap, c)
                              IN  /\ new.affordability_score
                                         = RDiv(RAdd(RMul(old.affordability_score, Num(n - 1)),
                                                     m[p].affordability_score), Num(n))
                                  /\ new.prosperity_score
                                         = RDiv(RAdd(RMul(old.prosperity_score, Num(n - 1)),
                                                     m[p].prosperity_score), Num(n))

\* the wildcard answer with three rows of one county, metro and rural, merged
C3_Witness ==
    /\ MatcherRan
    /\ formData.isMetro = "null"
    /\ \E e \in DOMAIN countyScores :
           LET S == MatchedIdxOf(countyScores[e].key)
           IN  /\ Cardinality(S) = 3
               /\ \E i, j \in S : /\ toUpperCase(allCSVData[i].isMetro) = STR_TRUE
                                  /\ toUpperCase(allCSVData[j].isMetro) = STR_FALSE
                                  /\ allCSVData[i].affordability_score
                                         # allCSVData[j].affordability_score

\* C4: the score map holds at most one CountyScore per county key, each stored under
\* the key equal to its own county field, and a key is present exactly when at least
\* one row with that county matches the answers.
C4_OnePerCounty ==
    /\ \A i, j \in DOMAIN countyScores :
           countyScores[i].key = countyScores[j].key => i = j
    /\ \A i \in DOMAIN countyScores : countyScores[i].value.county = countyScores[i].key
    /\ MatcherRan =>
           \A r \in DOMAIN allCSVData :
               (allCSVData[r].county \in Keys(countyScores))
                   <=> (MatchedIdxOf(allCSVData[r].county) # {})
    /\ MatcherRan => \A k \in Keys(countyScores) : MatchedIdxOf(k) # {}

\* two counties in the map, one of them merged from two rows, and a row left out
C4_Witness ==
    /\ MatcherRan
    /\ Len(countyScores) = 2
    /\ \E k \in Keys(countyScores) : Cardinality(MatchedIdxOf(k)) = 2

\* C5: for non-wildcard answers, when two or more rows share a county and the full
\* attribute tuple but differ in their scores, the emitted CountyScore equals the
\* scores of the first-seen or of the last-seen of those rows.
C5_FirstOrLastSeen ==
    (MatcherRan /\ formData.isMetro # "null") =>
        \A e \in DOMAIN countyScores :
            LET S == MatchedIdxOf(countyScores[e].key)
                first == allCSVData[CHOOSE i \in S : \A j \in S : i <= j]
                last == allCSVData[CHOOSE i \in S : \A j \in S : j <= i]
                v == countyScores[e].value
            IN  \/ /\ v.affordability_score = first.affordability_score
                   /\ v.prosperity_score = first.prosperity_score
                \/ /\ v.affordability_score = last.affordability_score
                   /\ v.prosperity_score = last.prosperity_score

-----------------------------------------------------------------------------
(* Properties of the joiner and of the colour mapper *)

\* a geography response has been joined (with the score map and score type of the
\* state: neither changes once the matcher has run)
JoinDone == geoJsonData.loaded

Features == geoJsonData.features

\* the trailing state token and the county component of a composite key
KeyState(key) == LET tokens == split(key, SP) IN tokens[Len(tokens)]
KeyCounty(key) == LET tokens == split(key, SP)
                  IN  join(SubSeq(tokens, 1, Len(tokens) - 1), SP)

SameName(key, f) == normalizeCountyName(KeyCounty(key)) = normalizeCountyName(f.NAME)

\* the entries of the score map a feature may take its scores from
Candidates(f, scores) ==
    {j \in DOMAIN scores :
        /\ KeyState(scores[j].key) = f.stateAbbrev
        /\ LET a == normalizeCountyName(KeyCounty(scores[j].key))
               b == normalizeCountyName(f.NAME)
           IN  a = b \/ includes(a, b) \/ includes(b, a)}

MinOf(S) == CHOOSE i \in S : \A j \in S : i <= j

\* C6: a feature with no matching score entry gets affordabilityScore = 0,
\* prosperityScore = 0 and a displayed score of 0 under every scoreType, and so is
\* drawn in the neutral colour with the 'No data available' tooltip.
C6_NoMatchIsNoData ==
    JoinDone =>
        \A i \in DOMAIN Features :
            Candidates(Features[i], countyScores) = {} =>
                /\ Features[i].affordabilityScore = Zero
                /\ Features[i].prosperityScore = Zero
                /\ Features[i].score = Zero
                /\ fillColorOf(Features[i], scoreType) = NeutralColor
                /\ tooltipOf(Features[i], scoreType) = "No data available"

Clamp01(x) == IF RLt(x, Zero) THEN Zero ELSE IF RLt(Num(1), x) THEN Num(1) ELSE x

\* ((1 - nA) + nP)/2 on the scale [-1, 2], with nA and nP the clamped (x + 1)/3
Blend(a, p) ==
    LET nA == Clamp01(Rat(a.n + a.d, 3 * a.d))
        nP == Clamp01(Rat(p.n + p.d, 3 * p.d))
        avg == RDiv(RAdd(RSub(Num(1), nA), nP), Num(2))
    IN  RSub(RMul(avg, Num(3)), Num(1))

\* C7: the recommendation score lies in [-1, 2] for every pair of input scores, is
\* 2 for affordability -1 and prosperity 2, is -1 for affordability 2 and
\* prosperity -1, and is the blend of the clamped normalisations.
C7_RecommendationRange ==
    (JoinDone /\ scoreType = "recommendation") =>
        \A i \in DOMAIN Features :
            LET f == Features[i]
            IN  /\ RLe(Num(-1), f.score) /\ RLe(f.score, Num(2))
                /\ f.score = Blend(f.affordabilityScore, f.prosperityScore)
                /\ (f.affordabilityScore = Num(-1) /\ f.prosperityScore = Num(2))
                       => f.score = Num(2)
                /\ (f.affordabilityScore = Num(2) /\ f.prosperityScore = Num(-1))
                       => f.score = Num(-1)

\* one join with the best pair (score 2) and a pair outside [-1, 2] on both sides
C7_Witness ==
    /\ JoinDone
    /\ scoreType = "recommendation"
    /\ \E i, k \in DOMAIN Features :
           /\ Features[i].affordabilityScore = Num(-1)
           /\ Features[i].prosperityScore = Num(2)
           /\ Features[i].score = Num(2)
           /\ RLt(Num(2), Features[k].affordabilityScore)
           /\ RLt(Features[k].prosperityScore, Num(-1))
           /\ Features[k].score = Num(-1)

\* C8: getColor(0) is the fixed neutral colour for every scoreType: every feature
\* whose score is exactly 0 is filled with it, and no other branch colours it.
C8_ZeroIsNeutral ==
    /\ \A st \in ScoreTypes : getColor(Zero, st) = NeutralColor
    /\ JoinDone =>
           \A i \in DOMAIN Features :
               Features[i].score = Zero =>
                   /\ fillColorOf(Features[i], scoreType) = NeutralColor
                   /\ fillColorOf(Features[i], scoreType)[1] # "rgb"

\* the layer is drawn and holds a feature of score 0 beside one of another score
C8_Witness ==
    /\ layerShown
    /\ \E i, j \in DOMAIN Features :
           /\ Features[i].score = Zero
           /\ Features[j].score # Zero

\* C9: a feature takes the scores of the first entry, in insertion order, whose
\* key's last token is the feature's state abbreviation and whose normalised county
\* component equals, contains or is contained in the feature's normalised name;
\* later candidates are ignored, entries of other states are never used, and with
\* no candidate both scores are 0.
C9_FirstCandidateWins ==
    JoinDone =>
        \A i \in DOMAIN Features :
            LET f == Features[i]
                C == Candidates(f, countyScores)
            IN  IF C = {}
                THEN f.affordabilityScore = Zero /\ f.prosperityScore = Zero
                ELSE /\ f.affordabilityScore
                            = countyScores[MinOf(C)].value.affordability_score
                     /\ f.prosperityScore
                            = countyScores[MinOf(C)].value.prosperity_score

\* a feature with a fuzzy candidate first and an exact one, of other scores, after
\* it; and a feature whose name is that of an entry of another state only
C9_Witness ==
    /\ JoinDone
    /\ \E i \in DOMAIN Features :
           LET C == Candidates(Features[i], countyScores)
           IN  /\ Cardinality(C) >= 2
               /\ ~SameName(countyScores[MinOf(C)].key, Features[i])
               /\ \E j \in C :
                      /\ SameName(countyScores[j].key, Features[i])
                      /\ countyScores[j].value.affordability_score
                             # Features[i].affordabilityScore
    /\ \E i \in DOMAIN Features :
           /\ Candidates(Features[i], countyScores) = {}
           /\ \E j \in DOMAIN countyScores :
                  /\ SameName(countyScores[j].key, Features[i])
                  /\ KeyState(countyScores[j].key) # Features[i].stateAbbrev

\* the displayed score is the raw score of the selected type
ShowsEntry(f, value) ==
    /\ scoreType = "affordability" => f.score = value.affordability_score
    /\ scoreType = "prosperity" => f.score = value.prosperity_score

\* C10 as stated: every row that matches the answers yields an entry keyed by its
\* county string with the row's two scores, and every feature of the same state
\* whose normalised name equals the entry's normalised county name displays the
\* entry's affordability (prosperity) score under that score type.
C10_EndToEnd_AsStated ==
    JoinDone =>
        \A r \in MatchedIdx :
            \E e \in DOMAIN countyScores :
                /\ countyScores[e].key = allCSVData[r].county
                /\ countyScores[e].value.affordability_score
                       = allCSVData[r].affordability_score
                /\ countyScores[e].value.prosperity_score
                       = allCSVData[r].prosperity_score
                /\ \A i \in DOMAIN Features :
                       (/\ KeyState(countyScores[e].key) = Features[i].stateAbbrev
                        /\ SameName(countyScores[e].key, Features[i]))
                           => ShowsEntry(Features[i], countyScores[e].value)

\* C10 amended: a matching row that is the only matching row of its county yields
\* an entry keyed by its county string with the row's two scores; a feature of the
\* same state whose normalised name equals an entry's normalised county name
\* displays that entry's score of the selected raw type, provided no earlier entry
\* of the map is a candidate for the feature.
C10_EndToEnd ==
    JoinDone =>
        /\ \A r \in MatchedIdx :
               Cardinality(MatchedIdxOf(allCSVData[r].county)) = 1 =>
                   \E e \in DOMAIN countyScores :
                       /\ countyScores[e].key = allCSVData[r].county
                       /\ countyScores[e].value.affordability_score
                              = allCSVData[r].affordability_score
                       /\ countyScores[e].value.prosperity_score
                              = allCSVData[r].prosperity_score
        /\ \A e \in DOMAIN countyScores :
               \A i \in DOMAIN Features :
                   (/\ KeyState(countyScores[e].key) = Features[i].stateAbbrev
                    /\ SameName(countyScores[e].key, Features[i])
                    /\ \A j \in Candidates(Features[i], countyScores) : e <= j)
                       => ShowsEntry(Features[i], countyScores[e].value)

\* the row 'Fairfax County VA' with 0.8 and 1.5, alone for its county, and the
\* feature 'Fairfax' of state FIPS 51 showing 0.8 under 'affordability'
C10_Witness ==
    /\ JoinDone
    /\ scoreType = "affordability"
    /\ formData.isMetro = "true"
    /\ \E r \in MatchedIdx :
           /\ allCSVData[r] = rowOf(Line1)
           /\ MatchedIdxOf(allCSVData[r].county) = {r}
           /\ allCSVData[r].affordability_score = Rat(8, 10)
           /\ allCSVData[r].prosperity_score = Rat(15, 10)
    /\ \E i \in DOMAIN Features :
           /\ Features[i].NAME = Feature1.NAME
           /\ Features[i].stateAbbrev = <<"V","A">>
           /\ Features[i].score = Rat(8, 10)

-----------------------------------------------------------------------------
(* Claims about when the geography is fetched and what is rendered *)

\* C11: loadGeoJSON is started only when the table has loaded and the matcher
\* has set a non-empty score map, which is the map the call captures; while
\* the score map is empty no fetch is in flight and no join result is set.
C11_GeoFetchNeedsScores ==
    /\ [][Len(geoFetches') > Len(geoFetches) =>
              /\ csvFetch = "done"
              /\ hasCalculated
              /\ Len(countyScores) > 0
              /\ geoFetches'[Len(geoFetches')].countyScores = countyScores]_vars
    /\ [](Len(countyScores) = 0 => geoFetches = <<>> /\ ~geoJsonData.loaded)
    /\ [][~geoJsonData.loaded /\ geoJsonData'.loaded =>
              csvFetch = "done" /\ hasCalculated /\ Len(countyScores) > 0]_vars

\* a fetch is in flight for a non-empty score map
C11_Witness ==
    /\ csvFetch = "done"
    /\ hasCalculated
    /\ Len(countyScores) > 0
    /\ Len(geoFetches) = 1
    /\ ~geoDue

\* every effect has run and no fetch is in flight
Settled == csvFetch # "pending" /\ ~matcherDue /\ ~geoDue /\ geoFetches = <<>>

\* the table loaded with at least one row and none of them matches the answers
NoRowMatches ==
    /\ csvFetch = "done"
    /\ Len(allCSVData) > 0
    /\ matchingRows(allCSVData, formData) = <<>>

\* C12: when no row of a loaded, non-empty table matches the answers, the
\* score map is empty, error stays null, and once everything has settled the
\* rendering shows the geographic features, each in the neutral no-data style.
C12_NoMatchShowsNoDataFeatures ==
    (NoRowMatches /\ Settled) =>
        /\ countyScores = <<>>
        /\ error = NoError
        /\ View = "map"
        /\ layerShown
        /\ \A i \in DOMAIN geoJsonData.features :
               fillColorOf(geoJsonData.features[i], scoreType) = NeutralColor

\* the three placeholder views of the component
PlaceholderViews ==
    {"Loading map data...", "error", "Map will update as you adjust the form"}

\* C13: a failed table fetch and a failed geography fetch each set a non-null
\* error with loading = false, the component then renders the error message
\* and keeps rendering it, and at most one of the error view, the loading
\* view and the initial-state view is rendered in any state.
C13_FailureShowsError ==
    /\ [][LoadCSVFailure \/ GeoFetchFailure =>
              error' # NoError /\ ~loading' /\ View' = "error"]_vars
    /\ [][error = NoError /\ error' # NoError =>
              \/ csvFetch = "pending" /\ csvFetch' = "failed"
              \/ Len(geoFetches') < Len(geoFetches)]_vars
    /\ [](error # NoError => ~loading /\ View = "error")
    /\ [](Cardinality({v \in PlaceholderViews : View = v}) <= 1)
    /\ [](View = "error" => error # NoError /\ ~loading)
    /\ [](View = "Loading map data..." => loading)
    /\ [](View = "Map will update as you adjust the form" =>
              ~loading /\ error = NoError /\ ~hasCalculated)

\* the geography fetch failed after the table had loaded and matched
C13_Witness ==
    /\ csvFetch = "done"
    /\ Len(countyScores) > 0
    /\ error = "Failed to load map data"
    /\ ~loading
    /\ View = "error"

-----------------------------------------------------------------------------
(* Claims about the prosperity page *)

\* C14: when either fetch of the page has failed, the page shows the error
\* message and does not show the 'Loading county-level prosperity data'
\* placeholder at the same time.
C14_ErrorDistinctFromLoading ==
    (homeCsv.status = "rejected" \/ homeTopo.status = "rejected") =>
        homeShowsError /\ ~homeShowsLoading

-----------------------------------------------------------------------------
(* Claims about the normalizers *)

\* C15: normalizeCountyName is idempotent: applied to its own result it
\* returns that result, for every input, including those where removing one
\* ' county' or ' parish' joins the surrounding text into a new suffix.
C15_Idempotent ==
    \A k \in 2..Len(fnResults) : fnResults[k] = fnResults[k - 1]

\* the suffix forms of C16, the empty one included
SuffixForms ==
    {<<>>, <<" ","C","o","u","n","t","y">>,
     <<" ","C","O","U","N","T","Y">>,
     <<" ","P","a","r","i","s","h">>}

\* the name has no suffix: no ' county' or ' parish' in any letter case and,
\* for the page's normalizer, no alternative of its pattern at the end
WithoutSuffix(b) ==
    /\ ~includes(toLowerCase(b), STR_sp_county)
    /\ ~includes(toLowerCase(b), STR_sp_parish)
    /\ stripPlaceSuffix(toLowerCase(trim(b))) = toLowerCase(trim(b))

endsWith(s, sfx) ==
    Len(sfx) <= Len(s) /\ SubSeq(s, Len(s) - Len(sfx) + 1, Len(s)) = sfx

normalizerOf(fn, value) ==
    IF fn = "Home" THEN homeNormalizeCountyName(value) ELSE normalizeCountyName(value)

STR_montgomery == <<"m","o","n","t","g","o","m","e","r","y">>

\* C16 as stated, for every base name b without a suffix, the blank ones
\* included: b + ' County', b + ' COUNTY', b + ' Parish' and b all normalize
\* to the same value.
C16_SuffixFormsAgree_AsStated ==
    fnResults # <<>> =>
        \A sfx \in SuffixForms :
            endsWith(fnArg.value, sfx) =>
                LET b == SubSeq(fnArg.value, 1, Len(fnArg.value) - Len(sfx))
                IN  WithoutSuffix(b) => fnResults[1] = normalizerOf(fnArg.fn, b)

\* C16: both normalizers strip ' county' and ' parish' whatever the letter
\* case, lower-case and trim: for a base name b without a suffix that is not
\* blank, b + ' County', b + ' COUNTY', b + ' Parish' and b all normalize to
\* the same value, and from the base name 'Montgomery' that value is
\* 'montgomery'; the component's normalizer does so for a blank b as well.
C16_SuffixFormsAgree ==
    fnResults # <<>> =>
        \A sfx \in SuffixForms :
            endsWith(fnArg.value, sfx) =>
                LET b == SubSeq(fnArg.value, 1, Len(fnArg.value) - Len(sfx))
                IN  (WithoutSuffix(b) /\ (trim(b) # <<>> \/ fnArg.fn = "MapVisualization")) =>
                        /\ fnResults[1] = normalizerOf(fnArg.fn, b)
                        /\ toLowerCase(b) = STR_montgomery =>
                               fnResults[1] = STR_montgomery

\* 'Montgomery COUNTY' was normalized by the component's normalizer
C16_Witness ==
    /\ fnArg.fn = "MapVisualization"
    /\ fnArg.value = <<"M","o","n","t","g","o","m","e","r","y"," ","C","O","U","N","T","Y">>
    /\ fnResults # <<>>
    /\ fnResults[1] = STR_montgomery

-----------------------------------------------------------------------------
(* Claims about the loader *)

Loaded == csvFetch = "done"

\* the raw comma-separated fields of a line, and one of them trimmed
RawFieldsOfPool == [line \in LoaderLinePool |-> split(line, COMMA)]
RawFields(line) ==
    IF line \in DOMAIN RawFieldsOfPool THEN RawFieldsOfPool[line] ELSE split(line, COMMA)
TrimmedField(line, k) == trim(RawFields(line)[k])

\* the conditions C17 names: the line is not blank, has at least 9 fields,
\* and its trimmed county field is neither empty nor the header token
KeptAsStated(line) ==
    /\ \E i \in DOMAIN line : line[i] \notin Whitespace
    /\ Len(RawFields(line)) >= 9
    /\ TrimmedField(line, 1) # <<>>
    /\ TrimmedField(line, 1) # STR_county

\* and the three the code adds: isMetro, numKids and numAdults are not empty
KeptByLoader(line) ==
    /\ KeptAsStated(line)
    /\ \A k \in 2..4 : TrimmedField(line, k) # <<>>

\* the positions, after the first line, of the lines that satisfy keep
KeptPositions(keep(_)) == {i \in 2..Len(csvText) : keep(csvText[i])}

\* the rows are the lines at the given positions, one each and in order
RowsAreLinesAt(positions) ==
    /\ Len(allCSVData) = Cardinality(positions)
    /\ \A i \in positions :
           allCSVData[Cardinality({j \in positions : j <= i})].county
               = TrimmedField(csvText[i], 1)

\* C17 as stated: after the first line, a line gives a row exactly when it
\* is not blank, has at least 9 fields and a county that is neither empty
\* nor 'county'.
C17_KeptLines_AsStated ==
    Loaded => RowsAreLinesAt(KeptPositions(KeptAsStated))

\* C17: the loader skips the first line; each later line gives one row, in
\* order, exactly when it is not blank, has at least 9 fields, a county that
\* is neither empty nor 'county', and non-empty isMetro, numKids and
\* numAdults fields; any other line is dropped and leaves error null.
C17_KeptLines ==
    Loaded =>
        /\ RowsAreLinesAt(KeptPositions(KeptByLoader))
        /\ error = NoError
        /\ ~loading

\* the first line is a well-formed data line, and of the two lines after it
\* the three-field one is dropped and the other one gives the only row
C17_Witness ==
    /\ Loaded
    /\ Len(csvText) = 3
    /\ csvText[1] = LoaderLines[1]
    /\ LoaderLines[4] \in {csvText[2], csvText[3]}
    /\ Len(allCSVData) = 1
    /\ error = NoError

\* the row a kept line at position i of the text gave
RowOfLineAt(i) == allCSVData[Cardinality({j \in KeptPositions(KeptByLoader) : j <= i})]

\* the score a field stands for: its parsed value, 0 when it is not a number
ScoreOfField(field) ==
    IF isNaN(parseFloat(trim(field))) THEN Zero ELSE parseFloat(trim(field))

\* the scores of the lines 1, 8, 9 and 10 of LoaderLines, written out
ExpectedScores ==
    {<<LoaderLines[1], Rat(1, 2), Rat(3, 2)>>,
     <<LoaderLines[8], Zero, Rat(3, 2)>>,
     <<LoaderLines[9], Rat(1, 2), Rat(3, 2)>>,
     <<LoaderLines[10], Rat(3, 2), Zero>>}

\* C18 as stated: the scores of every kept line are parsed from its two
\* trailing fields, a field that is not a number giving 0.
C18_ScoresFromTrailingFields_AsStated ==
    Loaded =>
        \A i \in KeptPositions(KeptByLoader) :
            LET fields == RawFields(csvText[i])
            IN  /\ RowOfLineAt(i).affordability_score = ScoreOfField(fields[Len(fields) - 1])
                /\ RowOfLineAt(i).prosperity_score = ScoreOfField(fields[Len(fields)])

\* C18: the scores of every kept line are parsed from its eighth and ninth
\* fields; a score field that is not a number gives 0 for that score only,
\* the row is kept with the parsed value of the other score, and error
\* stays null.
C18_ScoresFromFields8And9 ==
    Loaded =>
        /\ error = NoError
        /\ \A i \in KeptPositions(KeptByLoader) :
               LET fields == RawFields(csvText[i])
                   row == RowOfLineAt(i)
               IN  /\ row.affordability_score = ScoreOfField(fields[8])
                   /\ row.prosperity_score = ScoreOfField(fields[9])
                   /\ csvText[i] \in LoaderLinePool =>
                          <<csvText[i], row.affordability_score, row.prosperity_score>>
                              \in ExpectedScores

\* a line whose affordability is 'abc' gave a row with affordability 0 and
\* prosperity 1.5, next to a line without prosperity
C18_Witness ==
    /\ Loaded
    /\ Len(csvText) = 3
    /\ csvText[2] = LoaderLines[8]
    /\ csvText[3] = LoaderLines[10]
    /\ Len(allCSVData) = 2
    /\ allCSVData[1].affordability_score = Zero
    /\ allCSVData[1].prosperity_score = Rat(3, 2)
    /\ allCSVData[2].prosperity_score = Zero
    /\ error = NoError

-----------------------------------------------------------------------------
(* Claims about the colour mapper *)

LowTriple  == <<220, 38, 38>>
MidTriple  == <<234, 179, 8>>
HighTriple == <<34, 197, 94>>

Rgb(triple) == <<"rgb", triple[1], triple[2], triple[3]>>

\* floor(c0 + (num/den) * (c1 - c0)) per channel, in integer arithmetic
Interpolate(from, to, num, den) ==
    Rgb([c \in 1..3 |-> from[c] + ((num * (to[c] - from[c])) \div den)])

\* the colour C19 describes for a non-zero score
ThreeStopColor(score, st) ==
    LET n0 == Clamp01(Rat(score.n + score.d, 3 * score.d))
        n  == IF st = "affordability" THEN RSub(Num(1), n0) ELSE n0
    IN  IF 2 * n.n < n.d
        THEN Interpolate(LowTriple, MidTriple, 2 * n.n, n.d)
        ELSE Interpolate(MidTriple, HighTriple, 2 * n.n - n.d, n.d)

\* C19: for a non-zero score getColor clamps (score + 1)/3 into [0, 1], takes
\* 1 minus it for affordability, and interpolates each channel with a floor
\* between the low and mid triples below 0.5 and between the mid and high
\* triples from 0.5 up; so for prosperity and recommendation a score <= -1
\* gives the low triple, 0.5 the mid triple and a score >= 2 the high triple,
\* and for affordability the two ends are swapped.
C19_ThreeStopInterpolation ==
    (fnResults # <<>> /\ fnArg.score # Zero) =>
        LET score == fnArg.score
            st == fnArg.scoreType
            color == fnResults[1]
        IN  /\ color = ThreeStopColor(score, st)
            /\ RLe(score, Num(-1)) =>
                   color = Rgb(IF st = "affordability" THEN HighTriple ELSE LowTriple)
            /\ score = Rat(1, 2) => color = Rgb(MidTriple)
            /\ RLe(Num(2), score) =>
                   color = Rgb(IF st = "affordability" THEN LowTriple ELSE HighTriple)

\* an affordability score below -1 was given the high triple
C19_Witness ==
    /\ fnResults # <<>>
    /\ fnArg.scoreType = "affordability"
    /\ fnArg.score = Rat(-3, 2)
    /\ fnResults[1] = Rgb(HighTriple)

-----------------------------------------------------------------------------
(* Claims about the flag columns *)

\* a flag token read as C20 says: in any letter case, Y and TRUE stand for
\* true, N and FALSE for false
FlagEquals(token, answer) ==
    toUpperCase(trim(token)) \in (IF answer THEN {STR_Y, STR_TRUE} ELSE {STR_N, STR_FALSE})

\* the row's numAdults and its three flags equal the answers
AdultsAndFlagsEqual(row, fd) ==
    /\ ~parseInt(trim(row.numAdults)).nan
    /\ parseInt(trim(row.numAdults)).v = fd.numAdults
    /\ FlagEquals(row.HighFood, fd.HighFood)
    /\ FlagEquals(row.LowTransportation, fd.LowTransportation)
    /\ FlagEquals(row.HighHealthConditions, fd.HighHealthConditions)

\* C20: a row passes the matcher only if its numAdults equals the answer
\* exactly and its three flags equal the boolean answers, and the Y/N and the
\* TRUE/FALSE encodings are both accepted in any letter case: a row that
\* passes the metro and numKids conditions is matched exactly when its
\* numAdults and flags equal the answers in that reading.
C20_FlagEncodings ==
    MatcherRan =>
        \A i \in DOMAIN allCSVData :
            LET row == allCSVData[i]
            IN  (isMetroMatch(row, formData) /\ numKidsMatch(row, formData)) =>
                    (row.county \in Keys(countyScores)
                         <=> AdultsAndFlagsEqual(row, formData))

-----------------------------------------------------------------------------
(* The component while the props change: new answers and a new score type *)

\* the most geography fetches that are outstanding when a prop changes
MaxInFlight == 2

\* answers of the form that differ in the metro preference only
LiveAnswers ==
    {a \in Answers :
        /\ a.isMetro \in {"true", "false"}
        /\ a.numKids = 1 /\ a.numAdults = 2
        /\ ~a.HighFood /\ ~a.LowTransportation /\ ~a.HighHealthConditions}

\* the table: a header alone, one metro line, a metro and a non-metro line of
\* one county
LiveTexts == {<<HeaderLine>>, <<HeaderLine, Line1>>, <<HeaderLine, Line1, Line2>>}

\* the score types the parent switches between
LiveScoreTypes == {"affordability", "prosperity"}

LiveInit ==
    /\ formData \in LiveAnswers
    /\ scoreType \in LiveScoreTypes
    /\ Mounted
    /\ HomeNotMounted
    /\ FnIdle

LiveLoadCSVSuccess == LoadCSV(LiveTexts)

\* the parent renders the component with new answers: the effect on
\* [allCSVData, formData] is scheduled
ChangeAnswers ==
    /\ Len(geoFetches) < MaxInFlight
    /\ \E fd \in LiveAnswers \ {formData} : formData' = fd
    /\ matcherDue' = TRUE
    /\ UNCHANGED <<scoreType, csvFetch, allCSVData, countyScores, geoJsonData, loading,
                   error, hasCalculated, geoDue, geoFetches>>
    /\ UNCHANGED <<csvText, homeVars, fnVars>>

\* the parent renders the component with another score type: the effect on
\* [countyScores, scoreType] is scheduled
ChangeScoreType ==
    /\ Len(geoFetches) < MaxInFlight
    /\ \E st \in LiveScoreTypes \ {scoreType} : scoreType' = st
    /\ geoDue' = TRUE
    /\ UNCHANGED <<formData, csvFetch, allCSVData, countyScores, geoJsonData, loading,
                   error, hasCalculated, matcherDue, geoFetches>>
    /\ UNCHANGED <<csvText, homeVars, fnVars>>

LiveNext ==
    \/ LiveLoadCSVSuccess
    \/ LoadCSVFailure
    \/ MatcherEffect
    \/ GeoEffect
    \/ GeoFetchSuccess
    \/ GeoFetchFailure
    \/ ChangeAnswers
    \/ ChangeScoreType

LiveSpec == LiveInit /\ [][LiveNext]_vars

-----------------------------------------------------------------------------
(* Claims about the join as a function and about the component under changing props *)

\* the properties the join adds to a feature
JoinedProperties ==
    {"score", "affordabilityScore", "prosperityScore", "fullName", "countyName",
     "stateAbbrev"}

\* the joined features are the fetched ones, property for property, with the
\* six added properties
CarriesFetchedFeatures ==
    /\ Len(geoJsonData.features) = Len(GeoFeatures)
    /\ \A i \in DOMAIN GeoFeatures :
          LET out == geoJsonData.features[i]
          IN  /\ DOMAIN out = DOMAIN GeoFeatures[i] \cup JoinedProperties
              /\ \A p \in DOMAIN GeoFeatures[i] : out[p] = GeoFeatures[i][p]
              /\ out.countyName = GeoFeatures[i].NAME

-----------------------------------------------------------------------------
(* The join on its own: applied repeatedly to one score map and score type *)

\* the score maps the join is given: what the matcher builds from a table of
\* up to MaxRows lines
JoinScoreMaps ==
    {matchScores(parseCSV(text), fd) : text \in CsvTexts, fd \in LiveAnswers}

JoinInit ==
    /\ fnArg \in [countyScores : JoinScoreMaps, scoreType : ScoreTypes]
    /\ fnResults = <<>>
    /\ formData \in LiveAnswers
    /\ scoreType \in LiveScoreTypes
    /\ Mounted
    /\ HomeNotMounted

\* data.features.map(...) on the fetched features with the given score map and
\* score type
ApplyJoin ==
    /\ Len(fnResults) < MaxApplications
    /\ fnResults' = Append(fnResults,
                           processedFeatures(GeoFeatures, fnArg.countyScores,
                                             fnArg.scoreType))
    /\ UNCHANGED <<fnArg, mapVars, homeVars>>

\* between two joins the props of the component may change
JoinNext ==
    \/ ApplyJoin
    \/ ChangeAnswers
    \/ ChangeScoreType

JoinSpec == JoinInit /\ [][JoinNext]_vars

C23_ScoreMapReplaced ==
    MatcherRan =>
        /\ countyScores = matchScores(allCSVData, formData)
        /\ Keys(countyScores) = {allCSVData[i].county : i \in MatchedIdx}

\* the effect has run for the current answers and the joined features still
\* show a score of an earlier, different score map
C23_Witness ==
    /\ MatcherRan
    /\ geoJsonData.loaded
    /\ \E i \in DOMAIN geoJsonData.features :
          LET f == geoJsonData.features[i]
          IN  /\ f.affordabilityScore # Zero
              /\ \A k \in DOMAIN countyScores :
                    countyScores[k].value.affordability_score # f.affordabilityScore

-----------------------------------------------------------------------------
(* The application of src/frontend: App, its questionnaire, and the
   MapVisualization it imports from ./MapVisualization *)

\* const expectedIsMetro = formData.isMetro ? 'TRUE' : 'FALSE'
frontendIsMetroMatch(row, fd) ==
    LET csvIsMetro == toUpperCase(trim(row.isMetro))
        expectedIsMetro == IF fd.isMetro = "true" THEN STR_TRUE ELSE STR_FALSE
    IN  csvIsMetro = expectedIsMetro

\* the filter callback
frontendRowMatches(row, fd) ==
    /\ frontendIsMetroMatch(row, fd)
    /\ numKidsMatch(row, fd)
    /\ numAdultsMatch(row, fd)
    /\ highFoodMatch(row, fd)
    /\ lowTransportMatch(row, fd)
    /\ highHealthMatch(row, fd)

frontendMatchingRows(rows, fd) ==
    SelectSeq(rows, LAMBDA row : frontendRowMatches(row, fd))

\* the forEach callback: if (!scoresMap.has(row.county)) scoresMap.set(...)
frontendAggregateRow(scoresMap, row) ==
    IF mapHas(scoresMap, row.county) THEN scoresMap
    ELSE mapSet(scoresMap, row.county,
                [county |-> row.county,
                 affordability_score |-> row.affordability_score,
                 prosperity_score |-> row.prosperity_score])

RECURSIVE frontendAggregate(_)
frontendAggregate(rows) ==
    IF rows = <<>> THEN <<>>
    ELSE frontendAggregateRow(frontendAggregate(SubSeq(rows, 1, Len(rows) - 1)),
                              rows[Len(rows)])

\* the map handed to setCountyScores
frontendMatchScores(rows, fd) == frontendAggregate(frontendMatchingRows(rows, fd))

\* const score = scoreType === 'affordability' ? affordabilityScore : prosperityScore
frontendScoreFor(st, affordabilityScore, prosperityScore) ==
    IF st = "affordability" THEN affordabilityScore ELSE prosperityScore

\* the callback of data.features.map
frontendProcessFeature(feature, scores, st) ==
    LET countyName == feature.NAME
        stateAbbrev == abbrevOf(stateFipsOf(feature.GEO_ID))
        fullName == trim(countyName \o SP \o stateAbbrev)
        normalizedCounty == normalizeCountyName(countyName)
        stateAbbrevUpper == slice02(toUpperCase(stateAbbrev))
        hit == matchLoop(scores, 1, normalizedCounty, stateAbbrevUpper)
        affordabilityScore == IF hit = 0 THEN Zero ELSE scores[hit].value.affordability_score
        prosperityScore == IF hit = 0 THEN Zero ELSE scores[hit].value.prosperity_score
    IN  [NAME |-> feature.NAME, GEO_ID |-> feature.GEO_ID,
         score |-> frontendScoreFor(st, affordabilityScore, prosperityScore),
         affordabilityScore |-> affordabilityScore,
         prosperityScore |-> prosperityScore,
         fullName |-> fullName,
         countyName |-> countyName,
         stateAbbrev |-> stateAbbrev]

frontendProcessedFeatures(features, scores, st) ==
    [i \in DOMAIN features |-> frontendProcessFeature(features[i], scores, st)]

\* useState<FormData>({...}) of App
AppInitialFormData ==
    [isMetro |-> "false", numKids |-> 0, numAdults |-> 1, HighFood |-> FALSE,
     LowTransportation |-> FALSE, HighHealthConditions |-> FALSE]

\* the questionnaire is shown and MapVisualization is not mounted
showQuestionnaire == csvFetch = "none"

\* no state of MapVisualization exists
Unmounted ==
    /\ csvFetch = "none"
    /\ csvText = <<>>
    /\ allCSVData = <<>>
    /\ countyScores = <<>>
    /\ geoJsonData = NoData
    /\ loading = TRUE
    /\ error = NoError
    /\ hasCalculated = FALSE
    /\ matcherDue = FALSE
    /\ geoDue = FALSE
    /\ geoFetches = <<>>

\* the responses of the table fetch: a non-metro line of one county with a
\* metro line of the same county, or with a metro line of another county
AppTexts == {<<HeaderLine, Line1, Line2>>, <<HeaderLine, Line2, Line5>>}

AppInit ==
    /\ formData = AppInitialFormData
    /\ scoreType = "affordability"
    /\ Unmounted
    /\ HomeNotMounted
    /\ FnIdle

\* a control of the questionnaire sets one field of formData
SelectAnswer(field, values) ==
    /\ showQuestionnaire
    /\ \E v \in values \ {formData[field]} : formData' = [formData EXCEPT ![field] = v]
    /\ UNCHANGED <<scoreType, csvFetch, csvText, allCSVData, countyScores, geoJsonData,
                   loading, error, hasCalculated, matcherDue, geoDue, geoFetches>>
    /\ UNCHANGED <<homeVars, fnVars>>

\* handleInputChange on the numAdults radios
SelectNumAdults == SelectAnswer("numAdults", {1, 2})

\* handleInputChange on the numKids radios [0, 1, 2, 3]
SelectNumKids == SelectAnswer("numKids", 0..3)

SelectHighHealthConditions == SelectAnswer("HighHealthConditions", BOOLEAN)

SelectHighFood == SelectAnswer("HighFood", BOOLEAN)

SelectLowTransportation == SelectAnswer("LowTransportation", BOOLEAN)

\* the radios 'Non-Metro Only', 'Metro Only' and 'Both'
SelectIsMetro == SelectAnswer("isMetro", MetroAnswers)

\* the radios 'Affordability', 'Prosperity' and 'Recommendation'
SelectScoreType ==
    /\ showQuestionnaire
    /\ \E st \in ScoreTypes \ {scoreType} : scoreType' = st
    /\ UNCHANGED <<formData, csvFetch, csvText, allCSVData, countyScores, geoJsonData,
                   loading, error, hasCalculated, matcherDue, geoDue, geoFetches>>
    /\ UNCHANGED <<homeVars, fnVars>>

\* handleQuestionnaireSubmit: MapVisualization is mounted with the answers and
\* the score type; its first render and effects leave it waiting for the table
Submit ==
    /\ showQuestionnaire
    /\ csvFetch' = "pending"
    /\ UNCHANGED <<formData, scoreType, csvText, allCSVData, countyScores, geoJsonData,
                   loading, error, hasCalculated, matcherDue, geoDue, geoFetches>>
    /\ UNCHANGED <<homeVars, fnVars>>

\* 'Back to Questionnaire': MapVisualization is unmounted and its state is gone
BackToQuestionnaire ==
    /\ ~showQuestionnaire
    /\ csvFetch' = "none"
    /\ csvText' = <<>>
    /\ allCSVData' = <<>>
    /\ countyScores' = <<>>
    /\ geoJsonData' = NoData
    /\ loading' = TRUE
    /\ error' = NoError
    /\ hasCalculated' = FALSE
    /\ matcherDue' = FALSE
    /\ geoDue' = FALSE
    /\ geoFetches' = <<>>
    /\ UNCHANGED <<formData, scoreType, homeVars, fnVars>>

\* loadCSVData of the mounted component: the response arrived and was parsed
frontendLoadCSVSuccess == LoadCSV(AppTexts)

\* the effect on [allCSVData, formData] of the mounted component
frontendMatcherEffect ==
    /\ matcherDue
    /\ matcherDue' = FALSE
    /\ IF Len(allCSVData) = 0
       THEN UNCHANGED <<countyScores, hasCalculated, geoDue>>
       ELSE /\ countyScores' = frontendMatchScores(allCSVData, formData)
            /\ hasCalculated' = TRUE
            /\ geoDue' = TRUE
    /\ UNCHANGED <<formData, scoreType, csvFetch, allCSVData, geoJsonData, loading,
                   error, geoFetches>>
    /\ UNCHANGED <<csvText, homeVars, fnVars>>

\* loadGeoJSON of the mounted component: the response arrived
frontendGeoFetchSuccess ==
    \E i \in DOMAIN geoFetches :
        /\ geoJsonData' =
               [loaded |-> TRUE,
                features |-> frontendProcessedFeatures(GeoFeatures,
                                                       geoFetches[i].countyScores,
                                                       geoFetches[i].scoreType)]
        /\ loading' = FALSE
        /\ geoFetches' = removeAt(geoFetches, i)
        /\ UNCHANGED <<formData, scoreType, csvFetch, allCSVData, countyScores, error,
                       hasCalculated, matcherDue, geoDue>>
        /\ UNCHANGED <<csvText, homeVars, fnVars>>

\* loadCSVData's catch, the guard of the effect on [countyScores, scoreType] and
\* loadGeoJSON's catch are the same statements in both copies of the component,
\* so LoadCSVFailure, GeoEffect and GeoFetchFailure are taken as they are
AppNext ==
    \/ SelectNumAdults
    \/ SelectNumKids
    \/ SelectHighHealthConditions
    \/ SelectHighFood
    \/ SelectLowTransportation
    \/ SelectIsMetro
    \/ SelectScoreType
    \/ Submit
    \/ BackToQuestionnaire
    \/ frontendLoadCSVSuccess
    \/ LoadCSVFailure
    \/ frontendMatcherEffect
    \/ GeoEffect
    \/ frontendGeoFetchSuccess
    \/ GeoFetchFailure

AppSpec == AppInit /\ [][AppNext]_vars

\* C24: in the application of src/frontend, with 'Both' chosen for the metro
\* preference (formData.isMetro = null) the matcher accepts the rows whose
\* isMetro is TRUE as well as those whose isMetro is FALSE: every row that
\* meets the other conditions has its county in the score map.
C24_BothAcceptsMetroAndNonMetro ==
    (MatcherRan /\ formData.isMetro = "null") =>
        \A i \in DOMAIN allCSVData :
            OtherConditionsHold(allCSVData[i], formData) =>
                allCSVData[i].county \in Keys(countyScores)

\* C25: in the application of src/frontend, with 'Recommendation' chosen as
\* the score type the displayed score of every matched feature is the blend
\* of the inverted normalised affordability and the normalised prosperity.
C25_RecommendationIsBlended ==
    (geoJsonData.loaded /\ scoreType = "recommendation") =>
        \A i \in DOMAIN geoJsonData.features :
            LET f == geoJsonData.features[i]
            IN  Candidates(f, countyScores) # {} =>
                    f.score = recommendationScore(f.affordabilityScore, f.prosperityScore)

\* C26: with several geography fetches outstanding after answer or score-type
\* changes and completing in any order, once all of them have completed (and
\* none has failed) geoJsonData holds the features joined with the current,
\* most recent score map and score type.
C26_NewestJoinWins ==
    (Settled /\ error = NoError /\ Len(countyScores) > 0 /\ geoJsonData.loaded) =>
        geoJsonData.features = processedFeatures(GeoFeatures, countyScores, scoreType)

\* key={`${scoreType}-${countyScores.size}`} of the GeoJSON layer
keyOf(st, scores) == <<st, Len(scores)>>

\* the score maps and score types of the renders seen so far that still matter:
\* those captured by the outstanding fetches and those of the current render
RenderedInputs ==
    {geoFetches[i] : i \in DOMAIN geoFetches}
        \cup {[countyScores |-> countyScores, scoreType |-> scoreType]}

\* C27: whenever the joined features to display differ (another score map from
\* new answers, or another score type), the key of the GeoJSON layer, built
\* from scoreType and the size of the score map, differs too; in particular
\* two score maps of the same size with different scores get different keys.
C27_KeyFollowsData ==
    \A a, b \in RenderedInputs :
        (Len(a.countyScores) > 0 /\ Len(b.countyScores) > 0
            /\ processedFeatures(GeoFeatures, a.countyScores, a.scoreType)
                   # processedFeatures(GeoFeatures, b.countyScores, b.scoreType))
        => keyOf(a.scoreType, a.countyScores) # keyOf(b.scoreType, b.countyScores)

\* C28: the error of MapVisualization is absorbing and loading is monotone:
\* once a fetch failure has set error, no answer change, score-type switch or
\* later successful geography fetch resets it to null, so with loading false
\* the error view is rendered from then on; and loading, once false, never
\* becomes true again.
C28_ErrorAbsorbing ==
    /\ [][error # NoError => error' # NoError]_vars
    /\ [][~loading => ~loading']_vars
    /\ [](error # NoError => (~loading /\ View = "error"))

\* after a failed geography fetch the props changed and a later fetch brought
\* joined features for them
C28_Witness ==
    /\ error = "Failed to load map data"
    /\ geoJsonData.loaded
    /\ geoFetches = <<>>
    /\ Len(countyScores) > 0
    /\ geoJsonData.features = processedFeatures(GeoFeatures, countyScores, scoreType)
    /\ View = "error"

\* the table fetch succeeded and the text parsed to zero rows
EmptyTableLoaded == csvFetch = "done" /\ Len(allCSVData) = 0

\* C29: in every state a non-empty score map implies that hasCalculated is true
\* and the loaded table is non-empty; and when the table parses to zero rows,
\* then under any sequence of answer changes hasCalculated stays false, the
\* score map stays empty, no geography fetch is started and the component shows
\* the 'Map will update as you adjust the form' placeholder.
C29_EmptyTableStaysInitial ==
    /\ Len(countyScores) > 0 => (hasCalculated /\ Len(allCSVData) > 0)
    /\ EmptyTableLoaded =>
          /\ ~hasCalculated
          /\ countyScores = <<>>
          /\ geoFetches = <<>>
          /\ ~geoJsonData.loaded
          /\ View = "Map will update as you adjust the form"

\* the table parsed to zero rows and both effects have run on it
C29_Witness == EmptyTableLoaded /\ ~matcherDue /\ ~geoDue

\* C30: a feature whose state FIPS code is missing from the lookup table
\* (empty stateAbbrev) is matched to no score entry and gets the scores 0
\* whatever the score map holds, and a feature whose normalised name is empty
\* is matched to no score entry of its state either.
C30_NoStateOrNoNameUnmatched ==
    JoinDone =>
        \A i \in DOMAIN Features :
            LET f == Features[i]
            IN  (f.stateAbbrev = <<>> \/ normalizeCountyName(f.NAME) = <<>>) =>
                    /\ f.affordabilityScore = Zero
                    /\ f.prosperityScore = Zero

====
